---------------------------- MODULE Spec2Model ----------------------------
(***************************************************************************)
(* Model of torbox-auto-downloader: the Job Tracker (download_tracker.py), *)
(* the Transfer Engine, Archive Normalizer and Progress Reporter           *)
(* (file_processor.py) and the Orchestration Loop (watcher.py) together    *)
(* with the dashboard trigger (web_server.py).                             *)
(*                                                                         *)
(* Python values are written as tagged strings: "i:42" is the int 42,      *)
(* "s:42" the str "42", "None" is None.  File names are sequences of       *)
(* components, <<"movie", ".zip">> being movie.zip.  One unit of file      *)
(* content stands for one chunk of the stream.                             *)
(***************************************************************************)
EXTENDS Integers, Sequences, FiniteSets, TLC

VARIABLES
    download_tracking,   \* DownloadTracker.download_tracking: key -> record
    now,                 \* the wall clock read by datetime.now()
    ret,                 \* result of the last tracker call: [op, arg, val]
    active_downloads,    \* TorBoxWatcherApp.active_downloads: key -> session
    stats,               \* the DownloadStats / ExtractStats objects, by session
    rep_pc,              \* position of each session's _stats_update_thread
    disk,                \* file system: path -> content
    source,              \* the content the download URL serves
    server,              \* what else the download server does: headers, link, faults
    file0,               \* content found at the destination when download_file starts
    w_pc,                \* position of the watcher thread
    w,                   \* local variables of the watcher thread
    web_pc,              \* position of the web-server request thread
    web,                 \* local variables of the web-server request thread
    watch_dir            \* files present in the watch directory

vars == <<download_tracking, now, ret, active_downloads, stats, rep_pc, disk,
          source, server, file0, w_pc, w, web_pc, web, watch_dir>>

-----------------------------------------------------------------------------
(* Bounds of the model *)

\* the clock stops advancing at this value
MaxClock == 1

-----------------------------------------------------------------------------
(* Python values *)

None == "None"

\* str(x): the int 42 and the str "42" give the same key
Str(x) ==
    CASE x = "i:42" -> "s:42"
      [] x = "i:7"  -> "s:7"
      [] x = "i:0"  -> "s:0"
      [] x = None   -> "s:None"
      [] OTHER      -> x

\* bool(x) of a Python value
Truthy(x) == x \notin {None, "i:0", "s:"}

\* identifiers handed to the tracker by its callers
RawIds == {"i:42", "s:42", "s:abc"}

Types == {"torrent", "usenet"}

Names == {<<"movie">>, <<"pack", ".zip">>}

Dirs == {"radarr", "sonarr"}

-----------------------------------------------------------------------------
(* DownloadTracker *)

\* the record stored by track_download
TrackingInfo(download_type, file_stem, original_file, download_id, download_hash, download_dir, is_multi_file, clock) ==
    [type          |-> download_type,
     name          |-> file_stem,
     submitted_at  |-> clock,
     original_file |-> IF Truthy(original_file) THEN Str(original_file) ELSE None,
     id            |-> download_id,
     hash          |-> download_hash,
     download_dir  |-> IF Truthy(download_dir) THEN Str(download_dir) ELSE None,
     failure_count |-> 0,
     is_multi_file |-> is_multi_file]

EmptyDict == [x \in {} |-> None]

NoCall == [op |-> "none", arg |-> None, val |-> None]

\* d with key k bound to v (d[k] = v on a dict)
DictSet(d, k, v) == [x \in DOMAIN d \cup {k} |-> IF x = k THEN v ELSE d[x]]

\* del d[k] leaving the key in place
DictDelKept(d, k) == d

\* d without key k (del d[k] when k is present)
DictDel(d, k) == [x \in DOMAIN d \ {k} |-> d[x]]

\* track_download with the duplicate check dropped
TrackDownloadOverwrite(trk, identifier, info) ==
    [trk |-> DictSet(trk, Str(identifier), info), val |-> TRUE]

\* track_download: the mapping after the call and the value returned
TrackDownload(trk, identifier, info) ==
    IF Str(identifier) \in DOMAIN trk
    THEN [trk |-> trk, val |-> FALSE]
    ELSE [trk |-> DictSet(trk, Str(identifier), info), val |-> TRUE]

\* increment_failure_count
IncrementFailureCount(trk, identifier) ==
    IF Str(identifier) \in DOMAIN trk
    THEN LET k == Str(identifier)
             n == trk[k].failure_count + 1
         IN  [trk |-> [trk EXCEPT ![k].failure_count = n], val |-> n]
    ELSE [trk |-> trk, val |-> None]

\* reset_failure_count writing its 0 without the membership test
ResetFailureCountCreating(trk, identifier) ==
    DictSet(trk, Str(identifier), [failure_count |-> 0])

\* reset_failure_count
ResetFailureCount(trk, identifier) ==
    IF Str(identifier) \in DOMAIN trk
    THEN [trk EXCEPT ![Str(identifier)].failure_count = 0]
    ELSE trk

\* update_filename
UpdateFilename(trk, identifier, filename, is_multi_file) ==
    IF Str(identifier) \in DOMAIN trk
    THEN [trk EXCEPT ![Str(identifier)].name = filename,
                     ![Str(identifier)].is_multi_file = is_multi_file]
    ELSE trk

\* remove_tracked_download: the key is looked up as given, without str()
RemoveTrackedDownload(trk, download_id) ==
    IF download_id \in DOMAIN trk THEN DictDel(trk, download_id) ELSE trk

\* get_download_info
GetDownloadInfo(trk, identifier) ==
    IF Str(identifier) \in DOMAIN trk THEN trk[Str(identifier)] ELSE None

\* to_remove with the comparison of line 159 also true at the threshold
StaleKeysAtThreshold(trk, clock, max_age_hours) ==
    {k \in DOMAIN trk : clock - trk[k].submitted_at >= max_age_hours}

\* the keys cleanup_old_downloads collects in to_remove
StaleKeys(trk, clock, max_age_hours) ==
    {k \in DOMAIN trk : clock - trk[k].submitted_at > max_age_hours}

\* cleanup_old_downloads
CleanupOldDownloads(trk, clock, max_age_hours) ==
    LET to_remove == StaleKeys(trk, clock, max_age_hours)
    IN  [trk |-> [k \in DOMAIN trk \ to_remove |-> trk[k]],
         val |-> Cardinality(to_remove)]


-----------------------------------------------------------------------------
(* FileProcessor: download_file, extract_zip and _stats_update_thread *)

\* max_retries of download_file
max_retries == 10

\* number of chunks of the served content
SrcLen == 3

\* longest file found at the destination before a transfer
MaxFile == 4

\* the content served by the download URL: chunk i holds i
Source == [i \in 1..SrcLen |-> i]

\* a file left by something else: chunks that are no chunk of the source
Garbage(n) == [i \in 1..n |-> 0]

\* files that may be at the destination when download_file starts
InitialFiles ==
    {SubSeq(Source, 1, n) : n \in 0..SrcLen} \cup {Garbage(n) : n \in 1..MaxFile}

IsPrefix(a, b) == Len(a) <= Len(b) /\ SubSeq(b, 1, Len(a)) = a

\* Content-Disposition absent
NoCD == <<>>

\* file names offered by the Content-Disposition header of the HEAD response
HeadCDs == {NoCD, <<"srv", ".ZIP">>}

\* Content-Type values of the HEAD response
ContentTypes == {"application/zip", "video/x-matroska"}

\* extensions of the path of the download URL ("" when it has none)
UrlExts == {"", ".mkv"}

\* "zip" in content_type
HasZip(content_type) == content_type = "application/zip"

\* len(url_extension) <= 5
ReasonableExt(e) == e \in {".mkv", ".zip", ".ZIP", ".nzb"}

\* str.lower() of an extension
Lower(e) == IF e = ".ZIP" THEN ".zip" ELSE e

\* Path(name).suffix
Suffix(name) == IF Len(name) > 1 THEN name[Len(name)] ELSE ""

\* name.endswith(ext)
EndsWith(name, ext) == Len(name) > 1 /\ name[Len(name)] = ext

RECURSIVE JoinName(_)
\* the file name as one string
JoinName(name) == IF name = <<>> THEN "" ELSE name[1] \o JoinName(Tail(name))

\* download_path.parent / filename
PathStr(dir, name) == dir \o "/" \o JoinName(name)

\* lines 283-311 with the Content-Disposition header left unread
ResolveFilenameNoHeader(download_name, cd, url_extension, content_type) ==
    IF url_extension # "" THEN Append(download_name, url_extension)
    ELSE download_name

\* the file name download_file settles on (lines 283-311)
ResolveFilename(download_name, cd, url_extension, content_type) ==
    IF cd # NoCD THEN cd
    ELSE IF url_extension # "" /\ ReasonableExt(url_extension)
         THEN IF EndsWith(download_name, url_extension)
              THEN download_name
              ELSE Append(download_name, url_extension)
    ELSE IF HasZip(content_type) THEN Append(download_name, ".zip")
    ELSE download_name

\* DownloadStats.__init__ followed by download_stats.downloaded = downloaded_size
DownloadStats(key, filename, total_size, downloaded_size) ==
    [kind |-> "download", key |-> key, filename |-> filename,
     total_size |-> total_size, downloaded |-> downloaded_size,
     should_stop |-> FALSE, download_complete |-> FALSE]

\* ExtractStats.__init__
ExtractStats(key, total_files) ==
    [kind |-> "extract", key |-> key, total_files |-> total_files,
     extracted_files |-> 0, should_stop |-> FALSE]

\* the locals of the watcher thread outside any call
WIdle ==
    [identifiers |-> <<>>, cur |-> None, name |-> <<>>, dir |-> "",
     url_ext |-> "", filename |-> <<>>, path |-> "", total_size |-> 0,
     downloaded_size |-> 0, retry_count |-> 0, sid |-> 0, req_offset |-> 0,
     status |-> 0, body |-> <<>>, wait |-> 0, gets |-> 0, fellback |-> FALSE,
     result |-> "none",
     exc |-> "none", ex_sid |-> 0, ex_key |-> "", ex_exc |-> "none",
     df_exit |-> "none", rq |-> "none", files |-> <<>>, results |-> <<>>,
     sub |-> <<>>, skipped |-> {}, poll |-> "none",
     ex_failed |-> FALSE, request_id |-> None, failed |-> {}]

\* the locals of the retry loop are dead once the loop is left
LoopLeft(l) ==
    [l EXCEPT !.downloaded_size = 0, !.retry_count = 0, !.req_offset = 0,
              !.status = 0, !.body = <<>>, !.wait = 0, !.gets = 0,
              !.fellback = FALSE]

\* the next object identity
NewSid == Cardinality(DOMAIN rep_pc) + 1

FileSize(path) == IF path \in DOMAIN disk THEN Len(disk[path]) ELSE 0

\* the stop flag left as it is
SetShouldStopSkipped(st, s) == st

\* <session>.should_stop = True
SetShouldStop(st, s) == [st EXCEPT ![s].should_stop = TRUE]

\* lines 280-314: the HEAD probe and the file name
DfHead ==
    /\ w_pc = "df_head"
    /\ \/ LET content_length == IF server.sized THEN Len(source) ELSE 0
                filename == ResolveFilename(w.name, server.cd, w.url_ext, server.ctype)
            IN  /\ w' = [w EXCEPT !.total_size = content_length,
                                  !.filename = filename,
                                  !.path = PathStr(w.dir, filename)]
                /\ w_pc' = "df_register"
       \/ \* session.head raises a connection error or a timeout, or int() of
          \* the header raises
          /\ w_pc' = "df_except"
          /\ \E failure \in {"head_transient", "head_failed"} :
                w' = [w EXCEPT !.result = failure]
    /\ UNCHANGED <<download_tracking, now, ret, active_downloads, stats, rep_pc,
                   disk, source, server, file0, web_pc, web, watch_dir>>

\* lines 316-333: the resume offset, the session, its reporter thread
DfRegister ==
    /\ w_pc = "df_register"
    /\ LET downloaded_size == FileSize(w.path)
           sid == NewSid
       IN  /\ file0' = IF w.path \in DOMAIN disk THEN disk[w.path] ELSE <<>>
           /\ stats' = DictSet(stats, sid,
                          DownloadStats(w.cur, w.filename, w.total_size, downloaded_size))
           /\ active_downloads' = DictSet(active_downloads, w.cur, sid)
           /\ rep_pc' = DictSet(rep_pc, sid, "r_loop")
           /\ w' = [w EXCEPT !.downloaded_size = downloaded_size, !.sid = sid,
                             !.retry_count = 0]
    /\ w_pc' = "df_loop"
    /\ UNCHANGED <<download_tracking, now, ret, disk, source, server, web_pc, web, watch_dir>>

\* archives: the entry names of namelist(), each a sequence of path segments
\* ("root/a.txt" is <<"root", "a.txt">>, the directory entry "root/" is
\* <<"root", "">>)
Archives ==
    {<< <<"root", "">>, <<"root", "a.txt">>, <<"root", "b.txt">> >>,
     << <<"a.txt">>, <<"b.txt">> >>}

\* the servers: the archive a .zip artifact holds, the headers of the HEAD
\* answer (sized: with Content-Length), the extension of the link, how often
\* a transfer may break, and the links handed out so far
Servers(faults) ==
    [cd : HeadCDs, ctype : ContentTypes, sized : BOOLEAN, url_ext : UrlExts,
     faults : {faults}, links : {0}, archive : Archives]

\* the answers of the server to a GET asking for the content from offset on
\* (offset 0: no Range header): status and body
Responses(offset) ==
    {[status |-> 200, body |-> source], [status |-> 404, body |-> <<>>],
     [status |-> 204, body |-> <<>>]}
    \cup (IF offset > 0 /\ offset < Len(source)
          THEN {[status |-> 206, body |-> SubSeq(source, offset + 1, Len(source))]}
          ELSE {})
    \cup (IF offset > 0 /\ offset >= Len(source)
          THEN {[status |-> 416, body |-> <<>>]}
          ELSE {})

\* response.raise_for_status()
RaisesForStatus(status) == status >= 400

\* the output file always opened for writing from its start
OpenModeAlwaysTruncate(downloaded_size, status) == "wb"

\* the 200 answer to a ranged request not noticed: the file is appended to
OpenModeAlwaysAppend(downloaded_size, status) ==
    IF downloaded_size > 0 THEN "ab" ELSE "wb"

\* lines 346-353: the mode the output file is opened in
OpenMode(downloaded_size, status) ==
    IF downloaded_size > 0 /\ status = 200 THEN "wb"
    ELSE IF downloaded_size > 0 THEN "ab" ELSE "wb"

\* lines 346-350: the offset kept after the response
OffsetAfter(downloaded_size, status) ==
    IF downloaded_size > 0 /\ status = 200 THEN 0 ELSE downloaded_size

\* line 350 left out: the counter keeps the size of the discarded file
CounterAfterKept(downloaded, downloaded_size, status) == downloaded

\* lines 349-350: the byte counter of the session after the response
CounterAfter(downloaded, downloaded_size, status) ==
    IF downloaded_size > 0 /\ status = 200 THEN 0 ELSE downloaded

\* open(download_path, mode)
OpenFile(d, path, mode) ==
    IF mode = "wb" \/ path \notin DOMAIN d THEN DictSet(d, path, <<>>) ELSE d

\* lines 335-355: one GET attempt up to the opening of the output file
DfGet ==
    /\ w_pc = "df_loop"
    /\ w.retry_count < max_retries
    /\ \/ \E r \in Responses(w.downloaded_size) :
            LET sent == [w EXCEPT !.req_offset = w.downloaded_size,
                                  !.status = r.status,
                                  !.gets = w.gets + 1]
            IN  IF r.status \notin {200, 206} /\ RaisesForStatus(r.status)
                THEN /\ w' = [sent EXCEPT !.result = "http_error"]
                     /\ w_pc' = "df_except"
                     /\ UNCHANGED <<stats, disk>>
                ELSE /\ w' = [sent EXCEPT !.downloaded_size =
                                             OffsetAfter(w.downloaded_size, r.status),
                                          !.body = r.body,
                                          !.fellback =
                                             @ \/ (w.downloaded_size > 0 /\ r.status = 200)]
                     /\ stats' = [stats EXCEPT ![w.sid].downloaded =
                                     CounterAfter(@, w.downloaded_size, r.status)]
                     /\ disk' = OpenFile(disk, w.path,
                                         OpenMode(w.downloaded_size, r.status))
                     /\ w_pc' = "df_stream"
       \/ \* ConnectionError or Timeout before any response
          /\ w.retry_count < server.faults
          /\ w' = [w EXCEPT !.req_offset = w.downloaded_size, !.status = 0,
                            !.gets = w.gets + 1]
          /\ w_pc' = "df_transient"
          /\ UNCHANGED <<stats, disk>>
    /\ UNCHANGED <<download_tracking, now, ret, active_downloads, rep_pc, source, server,
                   file0, web_pc, web, watch_dir>>

\* lines 356-360: one chunk written
DfChunk ==
    /\ w_pc = "df_stream"
    /\ w.body # <<>>
    /\ disk' = [disk EXCEPT ![w.path] = Append(@, Head(w.body))]
    /\ stats' = [stats EXCEPT ![w.sid].downloaded = @ + 1]
    /\ w' = [w EXCEPT !.downloaded_size = @ + 1, !.body = Tail(@)]
    /\ w_pc' = "df_stream"
    /\ UNCHANGED <<download_tracking, now, ret, active_downloads, rep_pc, source, server,
                   file0, web_pc, web, watch_dir>>

\* the stream breaks: ConnectionError, ChunkedEncodingError or Timeout
DfStreamError ==
    /\ w_pc = "df_stream"
    /\ w.retry_count < server.faults
    /\ w' = [w EXCEPT !.body = <<>>]
    /\ w_pc' = "df_transient"
    /\ UNCHANGED <<download_tracking, now, ret, active_downloads, stats, rep_pc,
                   disk, source, server, file0, web_pc, web, watch_dir>>

\* lines 362-364: the body is exhausted
DfComplete ==
    /\ w_pc = "df_stream"
    /\ w.body = <<>>
    /\ stats' = [stats EXCEPT ![w.sid].download_complete = TRUE]
    /\ w' = [w EXCEPT !.result = "complete"]
    /\ w_pc' = IF Lower(Suffix(w.filename)) = ".zip" THEN "df_zip" ELSE "df_finally"
    /\ UNCHANGED <<download_tracking, now, ret, active_downloads, rep_pc, disk,
                   source, server, file0, web_pc, web, watch_dir>>

\* line 367, then the call of extract_zip
DfZip ==
    /\ w_pc = "df_zip"
    /\ stats' = SetShouldStop(stats, w.sid)
    /\ w' = [LoopLeft(w) EXCEPT !.ex_key = "extract_" \o w.path, !.ex_exc = "none"]
    /\ w_pc' = "ex_analyze"
    /\ UNCHANGED <<download_tracking, now, ret, active_downloads, rep_pc, disk,
                   source, server, file0, web_pc, web, watch_dir>>

\* the wait of line 377 without its cap
WaitTimeUncapped(retry_count) == 5 * retry_count

\* line 377
WaitTime(retry_count) == IF 5 * retry_count < 30 THEN 5 * retry_count ELSE 30

\* lines 372-389: a transient error is counted; sleep and re-read the size,
\* or give up
DfTransient ==
    /\ w_pc = "df_transient"
    /\ LET retry_count == w.retry_count + 1
       IN  IF retry_count < max_retries
           THEN /\ w' = [w EXCEPT !.retry_count = retry_count,
                                  !.wait = WaitTime(retry_count),
                                  !.downloaded_size =
                                      IF w.path \in DOMAIN disk
                                      THEN Len(disk[w.path]) ELSE @]
                /\ stats' = IF w.path \in DOMAIN disk
                            THEN [stats EXCEPT ![w.sid].downloaded = Len(disk[w.path])]
                            ELSE stats
                /\ w_pc' = "df_loop"
           ELSE /\ w' = [w EXCEPT !.retry_count = retry_count, !.wait = 0,
                                  !.result = "exhausted"]
                /\ stats' = stats
                /\ w_pc' = "df_except"
    /\ UNCHANGED <<download_tracking, now, ret, active_downloads, rep_pc, disk,
                   source, server, file0, web_pc, web, watch_dir>>

\* lines 393 and 397: the membership test of the handlers
DfExceptCheck ==
    /\ w_pc = "df_except"
    /\ w_pc' = IF w.cur \in DOMAIN active_downloads
               THEN "df_except_set" ELSE "df_finally"
    /\ w' = LoopLeft(w)
    /\ UNCHANGED <<download_tracking, now, ret, active_downloads, stats, rep_pc,
                   disk, source, server, file0, web_pc, web, watch_dir>>

\* lines 394 and 398: the subscript, a KeyError when the entry has gone
DfExceptSet ==
    /\ w_pc = "df_except_set"
    /\ IF w.cur \in DOMAIN active_downloads
       THEN /\ stats' = SetShouldStop(stats, active_downloads[w.cur])
            /\ w' = w
       ELSE /\ stats' = stats
            /\ w' = [w EXCEPT !.exc = "KeyError"]
    /\ w_pc' = "df_finally"
    /\ UNCHANGED <<download_tracking, now, ret, active_downloads, rep_pc, disk,
                   source, server, file0, web_pc, web, watch_dir>>

\* line 400
DfFinallyCheck ==
    /\ w_pc = "df_finally"
    /\ w_pc' = IF w.cur \in DOMAIN active_downloads
               THEN "df_finally_set" ELSE "df_finally_trk"
    /\ w' = LoopLeft(w)
    /\ UNCHANGED <<download_tracking, now, ret, active_downloads, stats, rep_pc,
                   disk, source, server, file0, web_pc, web, watch_dir>>

\* line 401: the subscript; a KeyError here leaves the finally block and
\* download_file at once
DfFinallySet ==
    /\ w_pc = "df_finally_set"
    /\ IF w.cur \in DOMAIN active_downloads
       THEN /\ stats' = SetShouldStop(stats, active_downloads[w.cur])
            /\ w' = w
            /\ w_pc' = "df_finally_trk"
       ELSE /\ stats' = stats
            /\ w' = [w EXCEPT !.exc = "KeyError", !.df_exit = "raised"]
            /\ w_pc' = "rq_end"
    /\ UNCHANGED <<download_tracking, now, ret, active_downloads, rep_pc, disk,
                   source, server, file0, web_pc, web, watch_dir>>

\* lines 402-403, then download_file returns, or raises what a handler raised
DfFinallyTracking ==
    /\ w_pc = "df_finally_trk"
    /\ download_tracking' = IF w.cur \in DOMAIN download_tracking
                            THEN DictDel(download_tracking, w.cur)
                            ELSE download_tracking
    /\ w' = [w EXCEPT !.df_exit = IF w.exc = "none" THEN "returned" ELSE "raised"]
    /\ w_pc' = "rq_end"
    /\ UNCHANGED <<now, ret, active_downloads, stats, rep_pc, disk, source, server, file0,
                   web_pc, web, watch_dir>>

\* lines 441-445: the first segments of all entries
TopLevelItems(all_files) == {all_files[i][1] : i \in DOMAIN all_files}

\* single_top_dir set whenever there is one top-level item
SingleTopDirAnyItem(all_files) == Cardinality(TopLevelItems(all_files)) = 1

\* lines 448-453: True when the archive has one top-level item with entries below it
SingleTopDir(all_files) ==
    /\ Cardinality(TopLevelItems(all_files)) = 1
    /\ \E i \in DOMAIN all_files : Len(all_files[i]) > 1

\* ZipInfo.is_dir()
IsDirEntry(entry) == entry[Len(entry)] = ""

\* lines 457-465: where the entries are extracted to
ExtractDir(download_dir, zip_name, all_files) ==
    IF SingleTopDir(all_files)
    THEN download_dir
    ELSE download_dir \o "/" \o JoinName(SubSeq(zip_name, 1, Len(zip_name) - 1))

RECURSIVE JoinPath(_)
JoinPath(entry) ==
    IF Len(entry) = 1 THEN entry[1] ELSE entry[1] \o "/" \o JoinPath(Tail(entry))

\* lines 494-498: the files written by zip_ref.extract
Extracted(d, extract_dir, all_files) ==
    LET files == {extract_dir \o "/" \o JoinPath(all_files[i]) :
                     i \in {j \in DOMAIN all_files : ~IsDirEntry(all_files[j])}}
    IN  [x \in DOMAIN d \cup files |-> IF x \in files THEN <<>> ELSE d[x]]

\* lines 435-492: the archive is analysed, the session and its reporter start
ExAnalyze ==
    /\ w_pc = "ex_analyze"
    /\ \/ LET all_files == server.archive
                sid == NewSid
                total_files == Cardinality({i \in DOMAIN all_files :
                                               ~IsDirEntry(all_files[i])})
            IN  /\ stats' = DictSet(stats, sid, ExtractStats(w.ex_key, total_files))
                /\ active_downloads' = DictSet(active_downloads, w.ex_key, sid)
                /\ rep_pc' = DictSet(rep_pc, sid, "r_loop")
                /\ w' = [w EXCEPT !.ex_sid = sid, !.body = all_files]
                /\ w_pc' = "ex_extract"
       \/ \* the file is no readable archive
          /\ w_pc' = "ex_except"
          /\ w' = [w EXCEPT !.ex_failed = TRUE]
          /\ UNCHANGED <<stats, active_downloads, rep_pc>>
    /\ UNCHANGED <<download_tracking, now, ret, disk, source, server, file0, web_pc, web,
                   watch_dir>>

\* lines 494-498: the entries are extracted, or one of them fails
ExExtract ==
    /\ w_pc = "ex_extract"
    /\ \/ /\ disk' = Extracted(disk, ExtractDir(w.dir, w.filename, w.body), w.body)
          /\ stats' = [stats EXCEPT ![w.ex_sid].extracted_files = stats[w.ex_sid].total_files]
          /\ w' = [w EXCEPT !.body = <<>>]
          /\ w_pc' = "ex_stop"
       \/ /\ w_pc' = "ex_except"
          /\ w' = [w EXCEPT !.body = <<>>, !.ex_failed = TRUE]
          /\ UNCHANGED <<disk, stats>>
    /\ UNCHANGED <<download_tracking, now, ret, active_downloads, rep_pc, source, server,
                   file0, web_pc, web, watch_dir>>

\* lines 500-501
ExStop ==
    /\ w_pc = "ex_stop"
    /\ stats' = SetShouldStop(stats, w.ex_sid)
    /\ w_pc' = "ex_unlink"
    /\ UNCHANGED <<download_tracking, now, ret, active_downloads, rep_pc, disk,
                   source, server, file0, w, web_pc, web, watch_dir>>

\* line 509: the archive is deleted, or unlink raises
ExUnlink ==
    /\ w_pc = "ex_unlink"
    /\ \/ /\ disk' = DictDel(disk, w.path)
          /\ w_pc' = "ex_finally"
          /\ w' = w
       \/ /\ disk' = disk
          /\ w_pc' = "ex_except"
          /\ w' = [w EXCEPT !.ex_failed = TRUE]
    /\ UNCHANGED <<download_tracking, now, ret, active_downloads, stats, rep_pc,
                   source, server, file0, web_pc, web, watch_dir>>

\* line 515
ExExceptCheck ==
    /\ w_pc = "ex_except"
    /\ w_pc' = IF w.ex_key \in DOMAIN active_downloads
               THEN "ex_except_set" ELSE "ex_finally"
    /\ UNCHANGED <<download_tracking, now, ret, active_downloads, stats, rep_pc,
                   disk, source, server, file0, w, web_pc, web, watch_dir>>

\* line 516: the subscript, a KeyError when the entry has gone
ExExceptSet ==
    /\ w_pc = "ex_except_set"
    /\ IF w.ex_key \in DOMAIN active_downloads
       THEN /\ stats' = SetShouldStop(stats, active_downloads[w.ex_key])
            /\ w' = w
       ELSE /\ stats' = stats
            /\ w' = [w EXCEPT !.ex_exc = "KeyError"]
    /\ w_pc' = "ex_finally"
    /\ UNCHANGED <<download_tracking, now, ret, active_downloads, rep_pc, disk,
                   source, server, file0, web_pc, web, watch_dir>>

\* line 519; without an entry extract_zip is left here: it returns to line 370
\* of download_file, or raises into its handler at line 395
ExFinallyCheck ==
    /\ w_pc = "ex_finally"
    /\ w_pc' = IF w.ex_key \in DOMAIN active_downloads THEN "ex_finally_del"
               ELSE IF w.ex_exc = "none" THEN "df_finally" ELSE "df_except"
    /\ w' = IF w.ex_key \notin DOMAIN active_downloads /\ w.ex_exc # "none"
            THEN [w EXCEPT !.result = "extract_raised"] ELSE w
    /\ UNCHANGED <<download_tracking, now, ret, active_downloads, stats, rep_pc,
                   disk, source, server, file0, web_pc, web, watch_dir>>

\* line 520: the del, a KeyError when the entry has gone; extract_zip is left
ExFinallyDel ==
    /\ w_pc = "ex_finally_del"
    /\ IF w.ex_key \in DOMAIN active_downloads
       THEN /\ active_downloads' = DictDel(active_downloads, w.ex_key)
            /\ w' = IF w.ex_exc = "none" THEN w
                    ELSE [w EXCEPT !.result = "extract_raised"]
            /\ w_pc' = IF w.ex_exc = "none" THEN "df_finally" ELSE "df_except"
       ELSE /\ active_downloads' = active_downloads
            /\ w' = [w EXCEPT !.ex_exc = "KeyError", !.result = "extract_raised"]
            /\ w_pc' = "df_except"
    /\ UNCHANGED <<download_tracking, now, ret, stats, rep_pc, disk, source, server, file0,
                   web_pc, web, watch_dir>>

\* lines 414-419: the reporter of session s has seen the stop flag (until
\* then it prints and sleeps, which changes nothing here) and looks its key
\* up; without an entry the thread ends and the session object is dropped
RepCheck(s) ==
    /\ rep_pc[s] = "r_loop"
    /\ stats[s].should_stop
    /\ IF stats[s].key \in DOMAIN active_downloads
       THEN /\ rep_pc' = [rep_pc EXCEPT ![s] = "r_del"]
            /\ stats' = stats
       ELSE /\ rep_pc' = [rep_pc EXCEPT ![s] = "done"]
            /\ stats' = DictDel(stats, s)
    /\ UNCHANGED <<download_tracking, now, ret, active_downloads, disk,
                   source, server, file0, w_pc, w, web_pc, web, watch_dir>>

\* line 420: the del, a KeyError that ends the thread when the entry has
\* gone; either way the thread ends and the session object is dropped
RepDel(s) ==
    /\ rep_pc[s] = "r_del"
    /\ IF stats[s].key \in DOMAIN active_downloads
       THEN /\ active_downloads' = DictDel(active_downloads, stats[s].key)
            /\ rep_pc' = [rep_pc EXCEPT ![s] = "done"]
       ELSE /\ active_downloads' = active_downloads
            /\ rep_pc' = [rep_pc EXCEPT ![s] = "KeyError"]
    /\ stats' = DictDel(stats, s)
    /\ UNCHANGED <<download_tracking, now, ret, disk, source, server, file0, w_pc,
                   w, web_pc, web, watch_dir>>

Reporter ==
    \E s \in DOMAIN rep_pc : RepCheck(s) \/ RepDel(s)

-----------------------------------------------------------------------------
(* One call of download_file with its reporter threads: the job "42" is    *)
(* tracked, a URL has been obtained, and any file may be at the            *)
(* destination.                                                            *)

\* the identifier of the job being transferred
JobKey == "s:42"

JobInfo == TrackingInfo("torrent", <<"movie">>, None, "i:42", "s:abc", "s:radarr", FALSE, 0)

\* every path download_file may settle on for the job
JobPaths ==
    {PathStr("s:radarr", ResolveFilename(JobInfo.name, cd, e, ct)) :
        cd \in HeadCDs, e \in UrlExts, ct \in ContentTypes}

InitTransfer ==
    /\ download_tracking = DictSet(EmptyDict, JobKey, JobInfo)
    /\ now = 0
    /\ ret = NoCall
    /\ active_downloads = EmptyDict
    /\ stats = EmptyDict
    /\ rep_pc = EmptyDict
    /\ source = Source
    /\ server \in Servers(max_retries)
    /\ file0 = <<>>
    /\ \/ disk = EmptyDict
       \/ \E f \in InitialFiles : disk = [p \in JobPaths |-> f]
    /\ w_pc = "df_head"
    /\ w = [WIdle EXCEPT !.cur = JobKey, !.name = JobInfo.name,
                         !.dir = JobInfo.download_dir, !.url_ext = server.url_ext]
    /\ web_pc = "off"
    /\ web = EmptyDict
    /\ watch_dir = {}

DownloadFile ==
    \/ DfHead
    \/ DfRegister
    \/ DfGet
    \/ DfChunk
    \/ DfStreamError
    \/ DfComplete
    \/ DfZip
    \/ DfTransient
    \/ DfExceptCheck
    \/ DfExceptSet
    \/ DfFinallyCheck
    \/ DfFinallySet
    \/ DfFinallyTracking

ExtractZip ==
    \/ ExAnalyze
    \/ ExExtract
    \/ ExStop
    \/ ExUnlink
    \/ ExExceptCheck
    \/ ExExceptSet
    \/ ExFinallyCheck
    \/ ExFinallyDel

NextTransfer == DownloadFile \/ ExtractZip \/ Reporter

SpecTransfer == InitTransfer /\ [][NextTransfer]_vars

-----------------------------------------------------------------------------
(* TorBoxWatcherApp: the watcher thread (run) and the dashboard trigger    *)
(* (add_item_to_track, called on the web-server thread)                    *)

\* download links the API hands out
MaxLinks == 2

\* requests the dashboard sends
MaxWebAdds == 1

\* connection faults the network produces during one transfer
MaxFaults == 1

\* the files the directory watcher finds: name and extension
WatchFiles == {[stem |-> <<"movie">>, ext |-> ".magnet", locked |-> FALSE]}

\* the watch directories of a start of the process: the magnet file, which
\* os.remove can or cannot delete, alone or beside an NZB file
WatchDirs ==
    {{[stem |-> <<"movie">>, ext |-> ".magnet", locked |-> l]} \cup nzb :
        l \in BOOLEAN,
        nzb \in {{}, {[stem |-> <<"show">>, ext |-> ".nzb", locked |-> FALSE]}}}

\* Config.RADARR_DOWNLOAD_DIR
RADARR_DOWNLOAD_DIR == "s:radarr"

\* the "data" objects of the answers to a submission (None: key absent)
SubmitData ==
    {[torrent_id |-> t, usenetdownload_id |-> None, id |-> None, hash |-> h] :
        t \in {None, "i:42"}, h \in {None, "s:abc"}}

\* line 146 preferring the hash to the service ID
ExtractIdentifierPreferHash(data, download_type) ==
    LET download_id ==
            IF download_type = "torrent" THEN data.torrent_id
            ELSE IF data.usenetdownload_id # None THEN data.usenetdownload_id
            ELSE data.id
        download_hash == data.hash
    IN  <<IF Truthy(download_hash) THEN download_hash ELSE download_id,
          download_id, download_hash>>

\* lines 118-147: <<identifier, download_id, download_hash>>
ExtractIdentifierFromResponse(data, download_type) ==
    LET download_id ==
            IF download_type = "torrent" THEN data.torrent_id
            ELSE IF data.usenetdownload_id # None THEN data.usenetdownload_id
            ELSE data.id
        download_hash == data.hash
    IN  <<IF Truthy(download_id) THEN download_id ELSE download_hash,
          download_id, download_hash>>

\* the download type of a watch file (lines 102-108)
FileType(f) == IF f.ext \in {".torrent", ".magnet"} THEN "torrent" ELSE "usenet"

RECURSIVE SetToSeq(_)
\* list(d.keys()), list(glob): some order of the set
SetToSeq(S) ==
    IF S = {} THEN <<>>
    ELSE LET x == CHOOSE y \in S : TRUE IN <<x>> \o SetToSeq(S \ {x})

\* line 100: the files of the watch directory are listed
ScanBegin ==
    /\ w_pc = "scan"
    /\ \/ /\ w' = [WIdle EXCEPT !.files = SetToSeq(watch_dir)]
          /\ w_pc' = "scan_file"
       \/ \* glob or is_file raises: the exception reaches run
          /\ w' = WIdle
          /\ w_pc' = "run_except"
    /\ UNCHANGED <<download_tracking, now, ret, active_downloads, stats, rep_pc,
                   disk, source, server, file0, web_pc, web, watch_dir>>

\* the loop of lines 110-116 removing every submitted file
ToDeleteAll(results) == {results[i][2] : i \in DOMAIN results}

\* lines 110-111: the files of the results whose success flag is set
ToDelete(results) ==
    {results[i][2] : i \in {j \in DOMAIN results : results[j][1]}}

\* lines 112-116: os.remove for each of the files; a failure is logged and
\* the file stays
OsRemove(dir, files) == dir \ {f \in files : ~f.locked}

\* lines 159-204 and 364-401: the next file is submitted; without a file left,
\* lines 110-116 delete the files whose submission was tracked
ScanFile ==
    /\ w_pc = "scan_file"
    /\ IF w.files = <<>>
       THEN /\ watch_dir' = OsRemove(watch_dir, ToDelete(w.results))
            /\ w' = [w EXCEPT !.results = <<>>]
            /\ w_pc' = "poll"
       ELSE LET f == Head(w.files)
            IN  /\ watch_dir' = watch_dir
                /\ \/ \E data \in SubmitData :
                        LET ids == ExtractIdentifierFromResponse(data, FileType(f))
                        IN  IF Truthy(ids[1])
                            THEN /\ w' = [w EXCEPT !.sub = ids]
                                 /\ w_pc' = "scan_track"
                            ELSE /\ w' = [w EXCEPT !.files = Tail(@),
                                            !.results = Append(@, <<FALSE, f, None>>)]
                                 /\ w_pc' = "scan_file"
                   \/ \* the API call raises
                      /\ w' = [w EXCEPT !.files = Tail(@),
                                        !.results = Append(@, <<FALSE, f, None>>)]
                      /\ w_pc' = "scan_file"
    /\ UNCHANGED <<download_tracking, now, ret, active_downloads, stats, rep_pc,
                   disk, source, server, file0, web_pc, web>>

\* track_download lines 46-48, called from lines 186-195 and 383-392
ScanTrackCheck ==
    /\ w_pc = "scan_track"
    /\ IF Str(w.sub[1]) \in DOMAIN download_tracking
       THEN /\ w' = [w EXCEPT !.files = Tail(@), !.sub = <<>>,
                        !.results = Append(@, <<FALSE, Head(w.files), w.sub[1]>>)]
            /\ w_pc' = "scan_file"
       ELSE /\ w' = w
            /\ w_pc' = "scan_insert"
    /\ UNCHANGED <<download_tracking, now, ret, active_downloads, stats, rep_pc,
                   disk, source, server, file0, web_pc, web, watch_dir>>

\* track_download lines 50-64
ScanTrackInsert ==
    /\ w_pc = "scan_insert"
    /\ LET f == Head(w.files)
       IN  /\ download_tracking' =
                  DictSet(download_tracking, Str(w.sub[1]),
                          TrackingInfo(FileType(f), f.stem, "s:watch/file", w.sub[2],
                                       w.sub[3], RADARR_DOWNLOAD_DIR, FALSE, now))
           /\ w' = [w EXCEPT !.files = Tail(@), !.sub = <<>>,
                             !.results = Append(@, <<TRUE, f, w.sub[1]>>)]
    /\ w_pc' = "scan_file"
    /\ UNCHANGED <<now, ret, active_downloads, stats, rep_pc, disk, source, server, file0,
                   web_pc, web, watch_dir>>

\* lines 425-430: the tracked identifiers are copied
PollBegin ==
    /\ w_pc = "poll"
    /\ IF DOMAIN download_tracking = {}
       THEN /\ w' = w
            /\ w_pc' = "sleep"
       ELSE /\ w' = [w EXCEPT !.identifiers = SetToSeq(DOMAIN download_tracking)]
            /\ w_pc' = "poll_iter"
    /\ UNCHANGED <<download_tracking, now, ret, active_downloads, stats, rep_pc,
                   disk, source, server, file0, web_pc, web, watch_dir>>

\* the test of line 434 never skipping
AlreadyDownloadingNever(identifier, registry) == FALSE

\* line 434: the identifier has an entry in the active-session registry
AlreadyDownloading(identifier, registry) == identifier \in DOMAIN registry

\* lines 432-443: the next identifier is examined
PollIter ==
    /\ w_pc = "poll_iter"
    /\ IF w.identifiers = <<>>
       THEN /\ w' = w
            /\ w_pc' = "sleep"
       ELSE LET identifier == Head(w.identifiers)
            IN  IF \/ AlreadyDownloading(identifier, active_downloads)
                   \/ identifier \notin DOMAIN download_tracking
                THEN /\ w' = [w EXCEPT !.identifiers = Tail(@),
                                       !.skipped =
                                          IF AlreadyDownloading(identifier,
                                                                active_downloads)
                                          THEN @ \cup {identifier} ELSE @]
                     /\ w_pc' = "poll_iter"
                ELSE /\ w' = [w EXCEPT !.identifiers = Tail(@), !.cur = identifier,
                                       !.poll = "none", !.df_exit = "none", !.rq = "none",
                                       !.result = "none", !.exc = "none",
                                       !.sid = 0, !.ex_sid = 0, !.ex_key = "",
                                       !.ex_exc = "none"]
                     /\ w_pc' = "status"
    /\ UNCHANGED <<download_tracking, now, ret, active_downloads, stats, rep_pc,
                   disk, source, server, file0, web_pc, web, watch_dir>>

\* the items of the answers to a status query
StatusItems ==
    {[id |-> i, hash |-> h, download_present |-> p] :
        i \in {"i:42", "i:7"}, h \in {"s:abc", "s:7"}, p \in BOOLEAN}

\* the "data" lists of the answers to a status query
StatusLists ==
    {<<>>} \cup {<<a>> : a \in StatusItems}
           \cup {<<a, b>> : a \in StatusItems, b \in StatusItems}

\* lines 245-249: whether a list item is the tracked job
ItemMatches(item, info, identifier) ==
    \/ Truthy(info.id) /\ Str(item.id) = Str(info.id)
    \/ Truthy(info.hash) /\ item.hash = info.hash
    \/ ~Truthy(info.id) /\ item.hash = identifier

\* lines 244-251: the first matching item of the list, <<>> when there is none
FindDownloadData(data, info, identifier) ==
    LET hits == {i \in DOMAIN data : ItemMatches(data[i], info, identifier)}
    IN  IF hits = {} THEN <<>>
        ELSE <<data[CHOOSE i \in hits : \A j \in hits : i <= j]>>

\* lines 253-274 without the test of download_present at line 266
PollOutcomeAnyFound(found) == IF found = <<>> THEN "absent" ELSE "ready"

\* lines 253-274: what the poll found: the job ready, still waiting on the
\* remote side, or absent from the answer
PollOutcome(found) ==
    IF found = <<>> THEN "absent"
    ELSE IF found[1].download_present THEN "ready" ELSE "waiting"

\* the for loop of lines 432-451 broken off by the error of one job
ContinueAborted(identifiers) == <<>>

\* lines 276-277, 342-343 and 450-451: the error of one job is logged and
\* the for loop goes on with the identifiers left
Continue(identifiers) == identifiers

\* the poll of the job ended in an error: the query raised or the answer
\* does not hold the job
PollFailed(outcome) == outcome \in {"error", "absent", "no_info"}

\* what the poll of one job leaves of the cycle's locals
AfterPoll(loc, outcome) ==
    IF PollFailed(outcome)
    THEN [loc EXCEPT !.poll = outcome, !.failed = @ \cup {loc.cur},
                     !.identifiers = Continue(@)]
    ELSE [loc EXCEPT !.poll = outcome]

\* the request or the transfer of the job ended in an error
TransferFailed(loc) ==
    loc.rq # "download" \/ loc.df_exit = "raised" \/ loc.result # "complete"

\* lines 217-279: the status of the job is queried; when the answer holds the
\* job with download_present, the download is requested
CheckStatus ==
    /\ w_pc = "status"
    /\ IF w.cur \notin DOMAIN download_tracking
       THEN /\ w_pc' = "poll_iter"
            /\ w' = AfterPoll(w, "no_info")
       ELSE \/ \E data \in StatusLists :
                 LET found == FindDownloadData(data, download_tracking[w.cur], w.cur)
                 IN  /\ w_pc' = IF PollOutcome(found) = "ready"
                                THEN "request" ELSE "poll_iter"
                     /\ w' = AfterPoll(w, PollOutcome(found))
            \/ \* lines 240-241: the answer holds one object, taken as it is
               \E data \in StatusItems :
                 /\ w_pc' = IF PollOutcome(<<data>>) = "ready"
                            THEN "request" ELSE "poll_iter"
                 /\ w' = AfterPoll(w, PollOutcome(<<data>>))
            \/ \* the API call raises (lines 276-277)
               /\ w_pc' = "poll_iter"
               /\ w' = AfterPoll(w, "error")
    /\ UNCHANGED <<download_tracking, now, ret, active_downloads, stats, rep_pc,
                   disk, source, server, file0, web_pc, web, watch_dir>>

\* the answers to the request of a download link
LinkResponses ==
    {[success |-> FALSE, data |-> None]} \cup
    (IF server.links < MaxLinks
     THEN {[success |-> TRUE, data |-> server.url_ext]} ELSE {})

\* lines 321-340 with the failure branch removing the job from the tracker
RequestFailedUntrack(trk, identifier) == DictDel(trk, identifier)

\* lines 336-343: the link request failed; the tracker is left as it is
RequestFailed(trk, identifier) == trk

\* line 306: tracking_info.get("id") or identifier
RequestId(info, identifier) == IF Truthy(info.id) THEN info.id ELSE identifier

\* lines 298-343: the download link is requested and download_file called
RequestDownload ==
    /\ w_pc = "request"
    /\ IF w.cur \notin DOMAIN download_tracking
       THEN /\ w' = [w EXCEPT !.rq = "no_info"]
            /\ w_pc' = "rq_end"
            /\ UNCHANGED <<download_tracking, server>>
       ELSE LET info == download_tracking[w.cur]
            IN  IF ~Truthy(info.download_dir)
                THEN /\ w' = [w EXCEPT !.rq = "no_dir"]
                     /\ w_pc' = "rq_end"
                     /\ UNCHANGED <<download_tracking, server>>
                ELSE \/ \E r \in LinkResponses :
                          IF r.success
                          THEN /\ server' = [server EXCEPT !.links = @ + 1]
                               /\ w' = [w EXCEPT !.rq = "download", !.name = info.name,
                                                 !.request_id = RequestId(info, w.cur),
                                                 !.dir = info.download_dir,
                                                 !.url_ext = r.data]
                               /\ w_pc' = "df_head"
                               /\ download_tracking' = download_tracking
                          ELSE /\ w' = [w EXCEPT !.rq = "url_failed",
                                                 !.request_id = RequestId(info, w.cur)]
                               /\ w_pc' = "rq_end"
                               /\ server' = server
                               /\ download_tracking' =
                                      RequestFailed(download_tracking, w.cur)
                     \/ \* the API call raises
                        /\ w' = [w EXCEPT !.rq = "url_failed",
                                          !.request_id = RequestId(info, w.cur)]
                        /\ w_pc' = "rq_end"
                        /\ server' = server
                        /\ download_tracking' = RequestFailed(download_tracking, w.cur)
    /\ UNCHANGED <<now, ret, active_downloads, stats, rep_pc, disk, source, file0,
                   web_pc, web, watch_dir>>

\* _request_download_common ends (an exception of download_file is logged at
\* lines 342-343) and the loop of check_download_status goes on
RequestEnd ==
    /\ w_pc = "rq_end"
    /\ w_pc' = "poll_iter"
    /\ w' = [WIdle EXCEPT !.identifiers = IF TransferFailed(w)
                                           THEN Continue(w.identifiers)
                                           ELSE w.identifiers,
                          !.skipped = w.skipped,
                          !.failed = IF TransferFailed(w)
                                     THEN w.failed \cup {w.cur} ELSE w.failed]
    /\ UNCHANGED <<download_tracking, now, ret, active_downloads, stats, rep_pc,
                   disk, source, server, file0, web_pc, web, watch_dir>>

\* lines 506-509: the cycle ends and the next one begins
Sleep ==
    /\ w_pc = "sleep"
    /\ w_pc' = "scan"
    /\ w' = WIdle
    /\ UNCHANGED <<download_tracking, now, ret, active_downloads, stats, rep_pc,
                   disk, source, server, file0, web_pc, web, watch_dir>>

\* the items the dashboard asks to track: id and hash
WebItems == {[id |-> "i:42", hash |-> None]}

\* web_server.track_download and lines 469-478 of add_item_to_track, up to
\* the membership test of track_download (lines 46-48)
WebTrack ==
    /\ web_pc = "idle"
    /\ web.count < MaxWebAdds
    /\ \E item \in WebItems :
          LET identifier == IF Truthy(item.id) THEN Str(item.id) ELSE Str(item.hash)
          IN  IF identifier = "s:"
              THEN /\ web' = [web EXCEPT !.count = @ + 1, !.success = FALSE]
                   /\ web_pc' = "idle"
              ELSE IF Str(identifier) \in DOMAIN download_tracking
              THEN /\ web' = [web EXCEPT !.count = @ + 1, !.success = FALSE]
                   /\ web_pc' = "idle"
              ELSE /\ web' = [web EXCEPT !.count = @ + 1, !.item = item,
                                         !.identifier = identifier]
                   /\ web_pc' = "insert"
    /\ UNCHANGED <<download_tracking, now, ret, active_downloads, stats, rep_pc,
                   disk, source, server, file0, w_pc, w, watch_dir>>

\* track_download lines 50-64 on the web-server thread
WebInsert ==
    /\ web_pc = "insert"
    /\ download_tracking' =
           DictSet(download_tracking, Str(web.identifier),
                   TrackingInfo("torrent", <<"movie">>, None, web.item.id,
                                web.item.hash, RADARR_DOWNLOAD_DIR, FALSE, now))
    /\ web' = [web EXCEPT !.success = TRUE, !.item = None, !.identifier = None]
    /\ web_pc' = "idle"
    /\ UNCHANGED <<now, ret, active_downloads, stats, rep_pc, disk, source, server, file0,
                   w_pc, w, watch_dir>>

Init ==
    /\ download_tracking = EmptyDict
    /\ now = 0
    /\ ret = NoCall
    /\ active_downloads = EmptyDict
    /\ stats = EmptyDict
    /\ rep_pc = EmptyDict
    /\ disk = EmptyDict
    /\ source = <<1>>
    /\ server \in {sv \in Servers(MaxFaults) :
                      /\ sv.sized /\ sv.url_ext = ".mkv"
                      /\ sv.ctype = "video/x-matroska"
                      /\ Len(sv.archive) = 3}
    /\ file0 = <<>>
    /\ w_pc = "scan"
    /\ w = WIdle
    /\ web_pc = "idle"
    /\ web = [count |-> 0, success |-> FALSE, item |-> None, identifier |-> None]
    /\ watch_dir = WatchFiles

\* run left for good by the exception of a cycle
AfterCycleErrorStopped == "stopped"

\* lines 502 and 513-515: the exception is logged, run sleeps and goes
\* round its loop again
AfterCycleError == "scan"

\* lines 513-515: an exception of the cycle caught by run
RunExcept ==
    /\ w_pc = "run_except"
    /\ w_pc' = AfterCycleError
    /\ UNCHANGED <<download_tracking, now, ret, active_downloads, stats, rep_pc,
                   disk, source, server, file0, w, web_pc, web, watch_dir>>

Watcher ==
    \/ ScanBegin
    \/ ScanFile
    \/ ScanTrackCheck
    \/ ScanTrackInsert
    \/ PollBegin
    \/ PollIter
    \/ CheckStatus
    \/ RequestDownload
    \/ RequestEnd
    \/ Sleep
    \/ RunExcept

WebServer == WebTrack \/ WebInsert

Next == Watcher \/ DownloadFile \/ ExtractZip \/ Reporter \/ WebServer

Spec == Init /\ [][Next]_vars

-----------------------------------------------------------------------------
(* The process from its start: main validates the configuration, builds    *)
(* the application, starts run on a daemon thread and serves the dashboard *)
(* on the main thread; no download link is handed out.                     *)

\* main has not left: the process and its daemon threads are running
Running == web_pc \notin {"exit_0", "exit_1"}

InitMain ==
    /\ download_tracking = EmptyDict
    /\ now = 0
    /\ ret = NoCall
    /\ active_downloads = EmptyDict
    /\ stats = EmptyDict
    /\ rep_pc = EmptyDict
    /\ disk = EmptyDict
    /\ source = <<1>>
    /\ server = [cd |-> NoCD, ctype |-> "video/x-matroska", sized |-> TRUE,
                 url_ext |-> ".mkv", faults |-> 0, links |-> MaxLinks,
                 archive |-> <<>>]
    /\ file0 = <<>>
    /\ w_pc = "off"
    /\ w = WIdle
    /\ web_pc = "validate"
    /\ web = [count |-> 0, success |-> FALSE, item |-> None, identifier |-> None,
              fatal |-> "none"]
    /\ watch_dir \in WatchDirs

\* main.py line 33: Config.validate() returns, or raises ValueError, which
\* lines 59-61 turn into sys.exit(1)
MainValidate ==
    /\ web_pc = "validate"
    /\ \/ /\ web_pc' = "construct"
          /\ web' = web
       \/ /\ web_pc' = "exit_1"
          /\ web' = [web EXCEPT !.fatal = "configuration"]
    /\ UNCHANGED <<download_tracking, now, ret, active_downloads, stats, rep_pc,
                   disk, source, server, file0, w_pc, w, watch_dir>>

\* main.py lines 34-43: the application is built (its directories made) and
\* run started on a daemon thread, or an exception is turned into
\* sys.exit(1) by lines 62-64
MainConstruct ==
    /\ web_pc = "construct"
    /\ \/ /\ web_pc' = "serve"
          /\ w_pc' = "scan"
          /\ web' = web
       \/ /\ web_pc' = "exit_1"
          /\ w_pc' = w_pc
          /\ web' = [web EXCEPT !.fatal = "startup"]
    /\ UNCHANGED <<download_tracking, now, ret, active_downloads, stats, rep_pc,
                   disk, source, server, file0, w, watch_dir>>

\* main.py lines 49-57: the web server binds its port and serves, or
\* app.run raises (the port is taken) and lines 62-64 call sys.exit(1)
MainServe ==
    /\ web_pc = "serve"
    /\ \/ /\ web_pc' = "idle"
          /\ web' = web
       \/ /\ web_pc' = "exit_1"
          /\ web' = [web EXCEPT !.fatal = "startup"]
    /\ UNCHANGED <<download_tracking, now, ret, active_downloads, stats, rep_pc,
                   disk, source, server, file0, w_pc, w, watch_dir>>

\* a keyboard interrupt reaches the main thread: the server stops, app.run
\* returns and main ends (lines 65-71), and the daemon thread with it
MainInterrupt ==
    /\ web_pc = "idle"
    /\ web_pc' = "exit_0"
    /\ UNCHANGED <<download_tracking, now, ret, active_downloads, stats, rep_pc,
                   disk, source, server, file0, w_pc, w, web, watch_dir>>

Main == MainValidate \/ MainConstruct \/ MainServe \/ MainInterrupt

\* the daemon thread runs as long as the process
WatcherThread == Running /\ Watcher

NextMain == Main \/ WatcherThread \/ WebServer

SpecMain == InitMain /\ [][NextMain]_vars

-----------------------------------------------------------------------------
(* The orchestration loop alone over the hours: no download link is handed *)
(* out, the clock advances, the loop and the clock keep running.           *)

\* the clock of this specification stops at this hour
MaxHours == 25

\* cleanup_old_downloads: the default of max_age_hours
DEFAULT_MAX_AGE_HOURS == 24

\* Config.MAX_STATUS_CHECK_FAILURES: the default
MAX_STATUS_CHECK_FAILURES == 5

\* an hour passes
Hour ==
    /\ now < MaxHours
    /\ now' = now + 1
    /\ UNCHANGED <<download_tracking, ret, active_downloads, stats, rep_pc, disk,
                   source, server, file0, w_pc, w, web_pc, web, watch_dir>>

InitPolling ==
    /\ download_tracking = EmptyDict
    /\ now = 0
    /\ ret = NoCall
    /\ active_downloads = EmptyDict
    /\ stats = EmptyDict
    /\ rep_pc = EmptyDict
    /\ disk = EmptyDict
    /\ source = <<1>>
    /\ server = [cd |-> NoCD, ctype |-> "video/x-matroska", sized |-> TRUE,
                 url_ext |-> ".mkv", faults |-> 0, links |-> MaxLinks,
                 archive |-> <<>>]
    /\ file0 = <<>>
    /\ w_pc = "scan"
    /\ w = WIdle
    /\ web_pc = "off"
    /\ web = EmptyDict
    /\ watch_dir = WatchFiles

NextPolling == Watcher \/ Hour

SpecPolling ==
    InitPolling /\ [][NextPolling]_vars /\ WF_vars(Watcher) /\ WF_vars(Hour)

-----------------------------------------------------------------------------
(* cleanup_old_downloads on a thread of its own, step by step, beside the   *)
(* transfer path about to remove its job (lines 402-403 of download_file)   *)
(* and the dashboard trigger inserting one.                                 *)

\* the locals of a cleanup_old_downloads call that has not begun
CleanupCall ==
    [op |-> "cleanup_old_downloads", arg |-> DEFAULT_MAX_AGE_HOURS, val |-> None,
     pc |-> "begin", clock |-> 0, size |-> 0, todo |-> <<>>, to_remove |-> <<>>,
     count |-> 0]

\* the jobs tracked beside job "42" when the call begins: none, a stale one,
\* a fresh one
OtherJobs ==
    {EmptyDict,
     DictSet(EmptyDict, "s:abc",
             TrackingInfo("torrent", <<"movie">>, None, None, "s:abc", "s:radarr",
                          FALSE, 0)),
     DictSet(EmptyDict, "s:abc",
             TrackingInfo("torrent", <<"movie">>, None, None, "s:abc", "s:radarr",
                          FALSE, MaxHours))}

InitCleanup ==
    /\ \E others \in OtherJobs : download_tracking = DictSet(others, JobKey, JobInfo)
    /\ now = MaxHours
    /\ ret = CleanupCall
    /\ active_downloads = EmptyDict
    /\ stats = EmptyDict
    /\ rep_pc = EmptyDict
    /\ disk = EmptyDict
    /\ source = <<1>>
    /\ server = [cd |-> NoCD, ctype |-> "video/x-matroska", sized |-> TRUE,
                 url_ext |-> ".mkv", faults |-> 0, links |-> MaxLinks,
                 archive |-> <<>>]
    /\ file0 = <<>>
    /\ w_pc = "df_finally_trk"
    /\ w = [WIdle EXCEPT !.cur = JobKey, !.name = JobInfo.name,
                         !.dir = JobInfo.download_dir, !.result = "complete"]
    /\ web_pc = "idle"
    /\ web = [count |-> 0, success |-> FALSE, item |-> None, identifier |-> None]
    /\ watch_dir = {}

\* lines 151-154: now is read and the iteration over items() begins; the
\* iterator remembers the size of the dict
CleanupBegin ==
    /\ ret.pc = "begin"
    /\ ret' = [ret EXCEPT !.pc = "iter", !.clock = now,
                          !.size = Cardinality(DOMAIN download_tracking),
                          !.todo = SetToSeq(DOMAIN download_tracking)]
    /\ UNCHANGED <<download_tracking, now, active_downloads, stats, rep_pc, disk,
                   source, server, file0, w_pc, w, web_pc, web, watch_dir>>

\* lines 154-166: the iterator is asked for the next item; it raises
\* RuntimeError, outside the try of the loop body, when the size of the dict
\* has changed; an item older than max_age_hours is noted in to_remove
CleanupNext ==
    /\ ret.pc = "iter"
    /\ IF Cardinality(DOMAIN download_tracking) # ret.size
       THEN ret' = [ret EXCEPT !.pc = "RuntimeError"]
       ELSE IF ret.todo = <<>>
       THEN ret' = [ret EXCEPT !.pc = "del", !.count = Len(ret.to_remove)]
       ELSE LET identifier == Head(ret.todo)
            IN  IF identifier \in StaleKeys(download_tracking, ret.clock, ret.arg)
                THEN ret' = [ret EXCEPT !.todo = Tail(@),
                                        !.to_remove = Append(@, identifier)]
                ELSE ret' = [ret EXCEPT !.todo = Tail(@)]
    /\ UNCHANGED <<download_tracking, now, active_downloads, stats, rep_pc, disk,
                   source, server, file0, w_pc, w, web_pc, web, watch_dir>>

\* lines 168-174: the noted identifiers are deleted one by one, a KeyError
\* when one has gone; then the count is returned
CleanupDel ==
    /\ ret.pc = "del"
    /\ IF ret.to_remove = <<>>
       THEN /\ ret' = [ret EXCEPT !.pc = "done", !.val = ret.count]
            /\ download_tracking' = download_tracking
       ELSE LET identifier == Head(ret.to_remove)
            IN  IF identifier \in DOMAIN download_tracking
                THEN /\ download_tracking' = DictDel(download_tracking, identifier)
                     /\ ret' = [ret EXCEPT !.to_remove = Tail(@)]
                ELSE /\ download_tracking' = download_tracking
                     /\ ret' = [ret EXCEPT !.pc = "KeyError"]
    /\ UNCHANGED <<now, active_downloads, stats, rep_pc, disk, source, server, file0,
                   w_pc, w, web_pc, web, watch_dir>>

Cleanup == CleanupBegin \/ CleanupNext \/ CleanupDel

NextCleanup == Cleanup \/ DfFinallyTracking \/ WebServer

SpecCleanup == InitCleanup /\ [][NextCleanup]_vars

-----------------------------------------------------------------------------
(* The reporter of one Transfer Session: print_stats is called tick after  *)
(* tick while the transfer thread adds the chunks it writes. The clock is  *)
(* counted in steps of its resolution; a speed is the pair of the bytes    *)
(* and the time they took.                                                  *)

\* the last reading of the clock
StatMaxTime == 4

\* the bytes of the file
StatMaxBytes == 3

\* the speed 0 of line 77
ZeroSpeed == [num |-> 0, den |-> 1]

\* no ETA: the None of line 109
NoEta == [some |-> FALSE, num |-> 0, den |-> 1]

\* DownloadStats.__init__ followed by line 323 of download_file
TimedStats(total_size, downloaded_size, clock) ==
    [total_size |-> total_size, downloaded |-> downloaded_size,
     last_update_time |-> clock, last_downloaded |-> 0]

\* get_speed: the speed it returns and the object as it leaves it
GetSpeed(st, clock) ==
    LET time_diff == clock - st.last_update_time
    IN  IF time_diff > 0
        THEN [speed |-> [num |-> st.downloaded - st.last_downloaded,
                         den |-> time_diff],
              st |-> [st EXCEPT !.last_update_time = clock,
                                !.last_downloaded = st.downloaded]]
        ELSE [speed |-> ZeroSpeed, st |-> st]

\* the reporter before its first tick
StatsCall(total_size, downloaded_size) ==
    [op |-> "print_stats", arg |-> None, val |-> None, pc |-> "tick",
     st |-> TimedStats(total_size, downloaded_size, 0),
     ticks |-> 0, speed |-> ZeroSpeed, eta |-> NoEta, remaining |-> 0,
     tick_time |-> 0, tick_downloaded |-> downloaded_size,
     prev_time |-> 0, prev_downloaded |-> downloaded_size]

InitStats ==
    /\ \E total_size \in {0, StatMaxBytes}, downloaded_size \in {0, 1} :
          ret = StatsCall(total_size, downloaded_size)
    /\ now = 0
    /\ download_tracking = DictSet(EmptyDict, JobKey, JobInfo)
    /\ active_downloads = EmptyDict
    /\ stats = EmptyDict
    /\ rep_pc = EmptyDict
    /\ disk = EmptyDict
    /\ source = <<1>>
    /\ server = [cd |-> NoCD, ctype |-> "video/x-matroska", sized |-> TRUE,
                 url_ext |-> ".mkv", faults |-> 0, links |-> MaxLinks,
                 archive |-> <<>>]
    /\ file0 = <<>>
    /\ w_pc = "df_write"
    /\ w = [WIdle EXCEPT !.cur = JobKey, !.name = JobInfo.name,
                         !.dir = JobInfo.download_dir]
    /\ web_pc = "off"
    /\ web = EmptyDict
    /\ watch_dir = {}

\* the clock moves on
StClock ==
    /\ now < StatMaxTime
    /\ now' = now + 1
    /\ UNCHANGED <<download_tracking, ret, active_downloads, stats, rep_pc, disk,
                   source, server, file0, w_pc, w, web_pc, web, watch_dir>>

\* DownloadStats.update called by the transfer thread for a chunk
StUpdate ==
    /\ ret.pc \notin {"ZeroDivisionError"}
    /\ \E chunk_size \in 1..(StatMaxBytes - ret.st.downloaded) :
          ret' = [ret EXCEPT !.st.downloaded = @ + chunk_size]
    /\ UNCHANGED <<download_tracking, now, active_downloads, stats, rep_pc, disk,
                   source, server, file0, w_pc, w, web_pc, web, watch_dir>>

\* print_stats line 113: speed = self.get_speed()
StSpeed ==
    /\ ret.pc = "tick"
    /\ LET r == GetSpeed(ret.st, now)
       IN  ret' = [ret EXCEPT !.pc = "eta_test", !.st = r.st, !.speed = r.speed,
                              !.eta = NoEta, !.ticks = IF @ < 2 THEN @ + 1 ELSE @,
                              !.prev_time = ret.tick_time,
                              !.prev_downloaded = ret.tick_downloaded,
                              !.tick_time = now,
                              !.tick_downloaded = ret.st.downloaded]
    /\ UNCHANGED <<download_tracking, now, active_downloads, stats, rep_pc, disk,
                   source, server, file0, w_pc, w, web_pc, web, watch_dir>>

\* get_eta line 106: self.total_size and self.get_speed() > 0
StEtaTest ==
    /\ ret.pc = "eta_test"
    /\ IF ret.st.total_size = 0
       THEN ret' = [ret EXCEPT !.pc = "printed"]
       ELSE LET r == GetSpeed(ret.st, now)
            IN  ret' = [ret EXCEPT !.st = r.st,
                                   !.pc = IF r.speed.num > 0
                                          THEN "eta_div" ELSE "printed"]
    /\ UNCHANGED <<download_tracking, now, active_downloads, stats, rep_pc, disk,
                   source, server, file0, w_pc, w, web_pc, web, watch_dir>>

\* get_eta line 107: remaining_bytes = self.total_size - self.downloaded
StEtaRemaining ==
    /\ ret.pc = "eta_div"
    /\ ret' = [ret EXCEPT !.pc = "eta_div_speed",
                          !.remaining = ret.st.total_size - ret.st.downloaded]
    /\ UNCHANGED <<download_tracking, now, active_downloads, stats, rep_pc, disk,
                   source, server, file0, w_pc, w, web_pc, web, watch_dir>>

\* get_eta line 108: remaining_bytes / self.get_speed()
StEtaDiv ==
    /\ ret.pc = "eta_div_speed"
    /\ LET r == GetSpeed(ret.st, now)
       IN  IF r.speed.num = 0
           THEN ret' = [ret EXCEPT !.st = r.st, !.pc = "ZeroDivisionError"]
           ELSE ret' = [ret EXCEPT !.st = r.st, !.pc = "printed",
                                   !.eta = [some |-> TRUE,
                                            num |-> ret.remaining * r.speed.den,
                                            den |-> r.speed.num]]
    /\ UNCHANGED <<download_tracking, now, active_downloads, stats, rep_pc, disk,
                   source, server, file0, w_pc, w, web_pc, web, watch_dir>>

\* _stats_update_thread line 417: the sleep between two ticks
StSleep ==
    /\ ret.pc = "printed"
    /\ now < StatMaxTime
    /\ now' = now + 1
    /\ ret' = [ret EXCEPT !.pc = "tick"]
    /\ UNCHANGED <<download_tracking, active_downloads, stats, rep_pc, disk,
                   source, server, file0, w_pc, w, web_pc, web, watch_dir>>

NextStats ==
    \/ StClock
    \/ StUpdate
    \/ StSpeed
    \/ StEtaTest
    \/ StEtaRemaining
    \/ StEtaDiv
    \/ StSleep

SpecStats == InitStats /\ [][NextStats]_vars

-----------------------------------------------------------------------------
(* One call of TorBoxAPIClient._get or _post: the request is attempted      *)
(* under tenacity's retry, which stops after max_retries + 1 attempts and   *)
(* waits 5 seconds between two attempts. requests.get and requests.post   *)
(* are called without a timeout, so an attempt returns, raises, or blocks   *)
(* on a peer that never answers.                                            *)

\* Config.MAX_RETRIES, its default
MAX_RETRIES == 2

\* wait_fixed(5)
API_WAIT == 5

\* what an attempt can raise: raise_for_status, the transport, response.json
ApiErrors == {"HTTPError", "ConnectionError", "JSONDecodeError"}

\* the JSON bodies of the answers
ApiAnswers == {"json:a", "json:b"}

\* the call as it begins: no attempt made yet
ApiCall(op, max_retries_arg) ==
    [op |-> op, arg |-> max_retries_arg, val |-> None, pc |-> "attempt",
     attempt_number |-> 0, exc |-> "none", exc_attempt |-> 0, started |-> 0,
     waits |-> <<>>]

InitApi ==
    /\ \E op \in {"_get", "_post"}, m \in 0..MAX_RETRIES : ret = ApiCall(op, m)
    /\ now \in 0..1
    /\ download_tracking = DictSet(EmptyDict, JobKey, JobInfo)
    /\ active_downloads = EmptyDict
    /\ stats = EmptyDict
    /\ rep_pc = EmptyDict
    /\ disk = EmptyDict
    /\ source = <<1>>
    /\ server = [cd |-> NoCD, ctype |-> "video/x-matroska", sized |-> TRUE,
                 url_ext |-> ".mkv", faults |-> 0, links |-> 0,
                 archive |-> <<>>]
    /\ file0 = <<>>
    /\ w_pc = "status"
    /\ w = [WIdle EXCEPT !.cur = JobKey]
    /\ web_pc = "off"
    /\ web = EmptyDict
    /\ watch_dir = {}

\* _do_get / _do_post once: the answer's JSON is returned, an exception is
\* raised, or the request never comes back
ApiAttempt ==
    /\ ret.pc = "attempt"
    /\ LET n == ret.attempt_number + 1
       IN  \/ \E a \in ApiAnswers :
                ret' = [ret EXCEPT !.attempt_number = n, !.pc = "returned",
                                   !.val = a]
           \/ \E e \in ApiErrors :
                ret' = [ret EXCEPT !.attempt_number = n, !.pc = "failed",
                                   !.exc = e, !.exc_attempt = n]
           \/ ret' = [ret EXCEPT !.attempt_number = n, !.pc = "blocked"]
    /\ UNCHANGED <<download_tracking, now, active_downloads, stats, rep_pc, disk,
                   source, server, file0, w_pc, w, web_pc, web, watch_dir>>

\* stop_after_attempt(self.max_retries + 1) with reraise=True: after the
\* last attempt its exception is raised to the caller
ApiStop ==
    /\ ret.pc = "failed"
    /\ ret' = [ret EXCEPT !.pc = IF ret.attempt_number >= ret.arg + 1
                                 THEN "raised" ELSE "wait"]
    /\ UNCHANGED <<download_tracking, now, active_downloads, stats, rep_pc, disk,
                   source, server, file0, w_pc, w, web_pc, web, watch_dir>>

\* wait_fixed(5): the sleep before the next attempt
ApiWait ==
    /\ ret.pc = "wait"
    /\ now' = now + API_WAIT
    /\ ret' = [ret EXCEPT !.pc = "attempt", !.waits = Append(@, API_WAIT)]
    /\ UNCHANGED <<download_tracking, active_downloads, stats, rep_pc, disk,
                   source, server, file0, w_pc, w, web_pc, web, watch_dir>>

NextApi == ApiAttempt \/ ApiStop \/ ApiWait

SpecApi == InitApi /\ [][NextApi]_vars /\ WF_vars(NextApi)

-----------------------------------------------------------------------------
(* One call of extract_zip with the reporter threads: download_file has    *)
(* written the archive "srv.ZIP", stopped its session (line 367) and calls *)
(* extract_zip (line 368); the archive holds any of ZipArchives.           *)

\* the archives extract_zip is given
ZipArchives ==
    Archives \cup
    {<<>>,
     << <<"a.txt">> >>,
     << <<"root", "">> >>,
     << <<"root", "a.txt">>, <<"root", "b.txt">> >>,
     << <<"x", "a.txt">>, <<"y", "b.txt">> >>,
     << <<"root", "a.txt">>, <<"b.txt">> >>}

\* the name download_file has given the archive
ZipName == <<"srv", ".ZIP">>

InitExtract ==
    /\ download_tracking = DictSet(EmptyDict, JobKey, JobInfo)
    /\ now = 0
    /\ ret = NoCall
    /\ active_downloads = DictSet(EmptyDict, JobKey, 1)
    /\ stats = DictSet(EmptyDict, 1,
                  [DownloadStats(JobKey, ZipName, Len(Source), Len(Source))
                      EXCEPT !.should_stop = TRUE, !.download_complete = TRUE])
    /\ rep_pc = DictSet(EmptyDict, 1, "r_loop")
    /\ disk = DictSet(EmptyDict, PathStr(JobInfo.download_dir, ZipName), Source)
    /\ source = Source
    /\ \E a \in ZipArchives :
          server = [cd |-> ZipName, ctype |-> "application/zip", sized |-> TRUE,
                    url_ext |-> "", faults |-> 0, links |-> 0, archive |-> a]
    /\ file0 = <<>>
    /\ w_pc = "ex_analyze"
    /\ w = [WIdle EXCEPT !.cur = JobKey, !.name = JobInfo.name,
                         !.dir = JobInfo.download_dir, !.filename = ZipName,
                         !.path = PathStr(JobInfo.download_dir, ZipName),
                         !.total_size = Len(Source), !.sid = 1,
                         !.result = "complete",
                         !.ex_key = "extract_" \o PathStr(JobInfo.download_dir, ZipName)]
    /\ web_pc = "off"
    /\ web = EmptyDict
    /\ watch_dir = {}

NextExtract == ExtractZip \/ Reporter

SpecExtract == InitExtract /\ [][NextExtract]_vars

-----------------------------------------------------------------------------
(* Claims about one transfer *)

\* the retry loop has just been left with the whole body written (line 364)
JustCompleted ==
    /\ w_pc \in {"df_zip", "df_finally"}
    /\ w.gets > 0
    /\ w.result = "complete"

\* C5: a non-empty prefix of the source at the destination and a server that
\* answers every ranged request with 206: the first request asks from the
\* size of that file, every 206 answer is appended at the on-disk size it was
\* asked from, and on completion the file is the source, of the declared
\* size, after any number of transient errors.
C5_ResumeCorrect ==
    /\ w.gets = 1 => w.req_offset = Len(file0)
    /\ (w_pc = "df_stream" /\ w.status = 206)
          => Len(disk[w.path]) + Len(w.body) = Len(source)
    /\ (JustCompleted /\ w.status = 206 /\ ~w.fellback
           /\ file0 # <<>> /\ IsPrefix(file0, source))
          => /\ disk[w.path] = source
             /\ w.total_size # 0 => Len(disk[w.path]) = w.total_size

\* C5 witness: a transfer resumed from a partial file completed with 206
\* answers only, after at least two transient errors.
C5_Witness ==
    /\ JustCompleted
    /\ w.status = 206
    /\ ~w.fellback
    /\ file0 # <<>>
    /\ Len(file0) < Len(source)
    /\ IsPrefix(file0, source)
    /\ w.retry_count >= 2
    /\ w.total_size = Len(source)
    /\ disk[w.path] = source

\* C6: a ranged request answered with 200 resets the offset and the byte
\* counter to zero and truncates the file, and the completed file is the
\* full source whatever was at the destination before.
C6_ResumeFallback ==
    /\ (w_pc = "df_stream" /\ w.status = 200 /\ w.req_offset > 0
           /\ Len(w.body) = Len(source))
          => /\ w.downloaded_size = 0
             /\ stats[w.sid].downloaded = 0
             /\ disk[w.path] = <<>>
    /\ (JustCompleted /\ w.status = 200 /\ w.req_offset > 0)
          => disk[w.path] = source

\* C6 witness: a transfer over a file that is no prefix of the source
\* completed through the fallback.
C6_Witness ==
    /\ JustCompleted
    /\ w.status = 200
    /\ w.req_offset > 0
    /\ file0 # <<>>
    /\ ~IsPrefix(file0, source)
    /\ disk[w.path] = source

\* the live Transfer Sessions: created and not yet dropped by their reporter
DownloadSessions == {s \in DOMAIN stats : stats[s].kind = "download"}

\* C7 as stated: the byte counter of a Transfer Session never decreases and
\* never exceeds a known total size.
C7_CounterMonotoneBounded ==
    /\ [][\A s \in DownloadSessions \cap DOMAIN stats' :
             stats'[s].downloaded >= stats[s].downloaded]_vars
    /\ [](\A s \in DownloadSessions :
             stats[s].total_size # 0 => stats[s].downloaded <= stats[s].total_size)

\* the step of lines 347-351: a ranged request answered with 200
FallbackStep ==
    /\ w_pc = "df_loop"
    /\ w_pc' = "df_stream"
    /\ w.downloaded_size > 0
    /\ w'.status = 200

\* C7 amended: the byte counter never decreases except when the resume
\* fallback resets it to zero, and it never exceeds a known total size when
\* the file found at the destination was no larger than that size.
C7_CounterMonotoneButFallback ==
    /\ [][\A s \in DownloadSessions \cap DOMAIN stats' :
             \/ stats'[s].downloaded >= stats[s].downloaded
             \/ (FallbackStep /\ s = w.sid /\ stats'[s].downloaded = 0)]_vars
    /\ [](\A s \in DownloadSessions :
             (stats[s].total_size # 0 /\ Len(file0) <= stats[s].total_size)
                => stats[s].downloaded <= stats[s].total_size)

\* C7 witness: after a fallback reset the counter has grown again to the
\* known total size.
C7_Witness ==
    /\ JustCompleted
    /\ w.fellback
    /\ file0 # <<>>
    /\ stats[w.sid].total_size = Len(source)
    /\ stats[w.sid].downloaded = stats[w.sid].total_size

\* session s has its stop flag set (its reporter drops it only after that)
Stopped(s) == s \notin DOMAIN stats \/ stats[s].should_stop

\* download_file has been left, by return or by an exception
DfLeft == w_pc = "rq_end" /\ w.df_exit # "none"

\* C4: one call issues at most max_retries GET attempts, every transient
\* error uses one up, and once the last one is used up the call ends as a
\* terminal failure: the session is stopped and the job is no longer tracked
\* when the call is left.
C4_BoundedRetries ==
    /\ w.gets <= max_retries
    /\ w_pc \in {"df_loop", "df_stream", "df_transient"} => w.retry_count < max_retries
    /\ w_pc = "df_loop" => w.gets = w.retry_count
    /\ (DfLeft /\ w.result = "exhausted")
          => /\ Stopped(w.sid)
             /\ w.cur \notin DOMAIN download_tracking

\* the part of C4 that holds: the attempts are bounded and exhaustion stops
\* the session
C4_AttemptsBounded ==
    /\ w.gets <= max_retries
    /\ w_pc \in {"df_loop", "df_stream", "df_transient"} => w.retry_count < max_retries
    /\ w_pc = "df_loop" => w.gets = w.retry_count
    /\ (DfLeft /\ w.result = "exhausted") => Stopped(w.sid)

\* the step by which download_file is left, by return or by an exception
DfExit == w_pc # "rq_end" /\ w_pc' = "rq_end" /\ w'.df_exit # "none"

\* C2: whenever download_file is left, whatever its outcome, the identifier
\* it was called with is no key of the tracker mapping.
C2_UntrackedOnReturn ==
    [][DfExit => w.cur \notin DOMAIN download_tracking']_vars

\* C3 as stated: whenever download_file is left, the identifier it was
\* called with is no key of the active-session registry.
C3_UnregisteredOnReturn ==
    [][DfExit => w.cur \notin DOMAIN active_downloads']_vars

\* C3 amended: whenever download_file is left, the session it registered has
\* its stop flag set, and an entry still in the registry under the
\* identifier is that stopped session, left for its reporter to remove.
C3_StoppedOnReturn ==
    [][DfExit =>
          /\ w.sid # 0 => (w.sid \notin DOMAIN stats' \/ stats'[w.sid].should_stop)
          /\ w.cur \in DOMAIN active_downloads'
                => /\ active_downloads'[w.cur] = w.sid
                   /\ stats'[w.sid].should_stop]_vars

\* C3 witness: download_file has returned after a complete transfer and the
\* stopped session is still registered under the identifier.
C3_Witness ==
    /\ DfLeft
    /\ w.df_exit = "returned"
    /\ w.result = "complete"
    /\ w.cur \in DOMAIN active_downloads
    /\ active_downloads[w.cur] = w.sid
    /\ stats[w.sid].should_stop
    /\ rep_pc[w.sid] = "r_loop"

-----------------------------------------------------------------------------
(* Claims about the orchestration *)

\* C8 as stated: when the request of the download link has failed, the job
\* is no longer tracked.
C8_LinkFailureUntracks ==
    (w_pc = "rq_end" /\ w.rq = "url_failed") => w.cur \notin DOMAIN download_tracking

\* the step of lines 336-343: the request of the download link fails
LinkFailure == w_pc = "request" /\ w_pc' = "rq_end" /\ w'.rq = "url_failed"

\* C8 amended: a failed request of the download link is only logged: the
\* tracker keeps the job unchanged, no session is created, and the job, in
\* the tracker and not in the registry, is polled again on a later cycle.
C8_LinkFailureKeepsJob ==
    [][LinkFailure =>
          /\ download_tracking' = download_tracking
          /\ w.cur \in DOMAIN download_tracking'
          /\ active_downloads' = active_downloads
          /\ stats' = stats
          /\ ~AlreadyDownloading(w.cur, active_downloads')]_vars

\* C8 witness: the request of the link for a ready job has failed and the
\* job is still tracked.
C8_Witness ==
    /\ w_pc = "rq_end"
    /\ w.rq = "url_failed"
    /\ w.cur \in DOMAIN download_tracking
    /\ w.cur \notin DOMAIN active_downloads

\* a step of the orchestration loop outside a transfer
LoopStep == ScanBegin \/ PollBegin \/ PollIter \/ CheckStatus

\* C9: while the transfer of one job is streaming, the orchestration loop
\* can poll another tracked job or begin its next cycle.
C9_PollNotBlocked ==
    \A b \in DOMAIN download_tracking :
        (w_pc = "df_stream" /\ b # w.cur /\ ~AlreadyDownloading(b, active_downloads))
           => ENABLED LoopStep

\* C10: no two live Transfer Sessions have the same identifier, and a
\* session that has not been stopped is the one registered under it.
C10_OneSessionPerIdentifier ==
    /\ \A s \in DownloadSessions, t \in DownloadSessions :
          stats[s].key = stats[t].key => s = t
    /\ \A s \in DownloadSessions :
          ~stats[s].should_stop
             => /\ stats[s].key \in DOMAIN active_downloads
                /\ active_downloads[stats[s].key] = s

\* C10 witness: an identifier tracked again by the dashboard is about to be
\* examined by the poll loop while its stopped session is still registered.
C10_Witness ==
    /\ w_pc = "poll_iter"
    /\ w.identifiers # <<>>
    /\ web.success
    /\ LET identifier == Head(w.identifiers)
       IN  /\ identifier \in DOMAIN download_tracking
           /\ AlreadyDownloading(identifier, active_downloads)
           /\ stats[active_downloads[identifier]].kind = "download"
           /\ stats[active_downloads[identifier]].should_stop

\* the elements of a list
Range(seq) == {seq[i] : i \in DOMAIN seq}

\* the step of lines 432-436 on an identifier that has a registry entry
SkipStep ==
    /\ w_pc = "poll_iter"
    /\ w.identifiers # <<>>
    /\ Head(w.identifiers) \in DOMAIN active_downloads
    /\ w' # w

\* C11: an identifier found in the active-session registry when the poll
\* loop examines it is passed over: that step issues no query, the
\* identifier is not examined again in the cycle, and neither a status query
\* nor a link request is made for it in that cycle.
C11_SkipWhileActive ==
    /\ [][SkipStep => /\ w_pc' = "poll_iter"
                      /\ w'.identifiers = Tail(w.identifiers)
                      /\ Head(w.identifiers) \notin Range(w'.identifiers)
                      /\ Head(w.identifiers) \in w'.skipped]_vars
    /\ [](w_pc \in {"status", "request", "df_head"} => w.cur \notin w.skipped)

\* C11 witness: a poll cycle has ended in which an identifier was passed
\* over because of its registry entry.
C11_Witness ==
    /\ w_pc = "sleep"
    /\ w.skipped # {}
    /\ w.skipped \subseteq DOMAIN download_tracking

\* the identifiers the watch files and the dashboard yield
TrackKeys == {"s:42", "s:abc"}

\* the tracked job k is older than the default staleness threshold
Stale(k) ==
    /\ k \in DOMAIN download_tracking
    /\ now - download_tracking[k].submitted_at > DEFAULT_MAX_AGE_HOURS

\* C12: a tracked job that never becomes ready is eventually removed from
\* the tracker once its age exceeds the staleness threshold.
C12_StaleEvicted ==
    [](w.poll # "ready")
       => \A k \in TrackKeys : Stale(k) ~> (k \notin DOMAIN download_tracking)

\* the step of lines 226-277 in which the status query raises
FailedPoll == w_pc = "status" /\ w_pc' = "poll_iter" /\ w'.poll = "error"

\* the step of lines 226-277 in which the status query is answered
AnsweredPoll ==
    /\ w_pc = "status"
    /\ w_pc' # "status"
    /\ w'.poll \in {"absent", "waiting", "ready"}

\* C13: a failed status poll increments the failure counter of the job, an
\* answered poll resets it to 0, and a job whose counter has reached the
\* threshold is not polled.
C13_GivesUpPolling ==
    /\ [][FailedPoll => download_tracking'[w.cur].failure_count =
                           download_tracking[w.cur].failure_count + 1]_vars
    /\ [][AnsweredPoll => download_tracking'[w.cur].failure_count = 0]_vars
    /\ [](w_pc = "status" /\ w.cur \in DOMAIN download_tracking
             => download_tracking[w.cur].failure_count < MAX_STATUS_CHECK_FAILURES)

\* the archive has been extracted (line 500 reached)
ExtractionDone == w_pc \in {"ex_stop", "ex_unlink"}

\* the paths of the non-directory entries of an archive below a directory
EntryPaths(dir, a) ==
    {dir \o "/" \o JoinPath(a[i]) : i \in {j \in DOMAIN a : a[j][Len(a[j])] # ""}}

\* C16: the entries are extracted directly into the destination directory
\* if and only if the archive has exactly one distinct top-level segment and
\* an entry below it; in every other case (several top-level segments, only
\* top-level files, one top-level file, no entries) they are extracted into
\* <destination>/<archive name without extension>/.
C16_ArchiveLayout ==
    ExtractionDone =>
       LET a == server.archive
           rooted == /\ Cardinality({a[i][1] : i \in DOMAIN a}) = 1
                     /\ \E i \in DOMAIN a : Len(a[i]) >= 2
           into == IF rooted THEN "s:radarr" ELSE "s:radarr/srv"
       IN  DOMAIN disk \ {w.path} = EntryPaths(into, a)

\* C16 witness: the single-rooted archive of root/a.txt and root/b.txt has
\* been extracted to <destination>/root/.
C16_Witness ==
    /\ ExtractionDone
    /\ server.archive = << <<"root", "a.txt">>, <<"root", "b.txt">> >>
    /\ {"s:radarr/root/a.txt", "s:radarr/root/b.txt"} \subseteq DOMAIN disk

\* the archive of a.txt and b.txt at top level has been extracted to
\* <destination>/<archive stem>/
C16_MultiRooted ==
    /\ ExtractionDone
    /\ server.archive = << <<"a.txt">>, <<"b.txt">> >>
    /\ {"s:radarr/srv/a.txt", "s:radarr/srv/b.txt"} \subseteq DOMAIN disk

\* extract_zip has been called and has got past its handlers
ExtractLeft == w.ex_key # "" /\ w_pc \in {"ex_finally", "ex_finally_del", "df_finally", "df_except"}

\* C17: extract_zip deletes the archive exactly when analysis, extraction and
\* deletion went through without an exception; after an exception the
\* archive is still there and the Extraction Session, if one was created, is
\* stopped; and when download_file is left after such a failure the job is
\* no key of the tracker.
C17_FailedExtractionUntracked ==
    /\ [](ExtractLeft => (w.path \notin DOMAIN disk <=> ~w.ex_failed))
    /\ [](ExtractLeft /\ w.ex_failed /\ w.ex_sid # 0 => Stopped(w.ex_sid))
    /\ [][DfExit /\ w.ex_failed => w.cur \notin DOMAIN download_tracking']_vars

\* C18: extract_zip never leaves with an exception: the caller never sees
\* one raised out of it.
C18_ExtractNeverRaises == w.result # "extract_raised"

\* C19: no reporter's removal of its registry entry fails: no reporter ends
\* in the KeyError of a del on an entry that another thread removed first.
C19_RemovalNeverFails == \A s \in DOMAIN rep_pc : rep_pc[s] # "KeyError"

\* the magnet submission answered with torrent_id 42 and hash "abc" is tracked
MagnetTracked ==
    /\ w_pc = "scan_insert" /\ w_pc' = "scan_file"
    /\ Head(w.files).ext = ".magnet"
    /\ w.sub = <<"i:42", "i:42", "s:abc">>

\* a poll of job "42" found download_present true
ReadyPoll == w_pc = "status" /\ w_pc' # "status" /\ w.cur = "s:42" /\ w'.poll = "ready"

\* the download link of job "42", tracked with id 42, is requested
LinkRequest ==
    /\ w_pc = "request" /\ w_pc' # "request"
    /\ w.cur = "s:42" /\ w'.rq \in {"download", "url_failed"}
    /\ download_tracking["s:42"].id = "i:42"

\* download_file is left after the whole file of job "42" was fetched and
\* written
FetchedExit ==
    /\ DfExit
    /\ w.cur = "s:42"
    /\ w.result = "complete"
    /\ "s:42" \in DOMAIN download_tracking
    /\ download_tracking["s:42"].hash = "s:abc"

\* C20: a magnet submission answered with torrent_id 42 and hash "abc" puts
\* the key "42" into the tracker with a download directory, id 42 and hash
\* "abc"; a poll that finds download_present true leads to the request of
\* the download link, made with id 42; the link obtained, download_file is
\* called with the identifier "42"; and when download_file is left after
\* fetching and writing the whole file the tracker has no key "42".
C20_EndToEnd ==
    /\ [][MagnetTracked =>
             /\ "s:42" \in DOMAIN download_tracking'
             /\ Truthy(download_tracking'["s:42"].download_dir)
             /\ download_tracking'["s:42"].id = "i:42"
             /\ download_tracking'["s:42"].hash = "s:abc"]_vars
    /\ [][ReadyPoll => w_pc' = "request"]_vars
    /\ [][LinkRequest => w'.request_id = "i:42"]_vars
    /\ [][LinkRequest /\ w'.rq = "download" => w_pc' = "df_head" /\ w'.cur = "s:42"]_vars
    /\ [][FetchedExit => "s:42" \notin DOMAIN download_tracking']_vars

\* C20 without its last step: submission, poll, link request and call
C20_UpToTheCall ==
    /\ [][MagnetTracked =>
             /\ "s:42" \in DOMAIN download_tracking'
             /\ Truthy(download_tracking'["s:42"].download_dir)
             /\ download_tracking'["s:42"].id = "i:42"
             /\ download_tracking'["s:42"].hash = "s:abc"]_vars
    /\ [][ReadyPoll => w_pc' = "request"]_vars
    /\ [][LinkRequest => w'.request_id = "i:42"]_vars
    /\ [][LinkRequest /\ w'.rq = "download" => w_pc' = "df_head" /\ w'.cur = "s:42"]_vars

\* the watcher examines the next identifier of the cycle
ExamineStep == w_pc = "poll_iter" /\ w.identifiers # <<>> /\ w' # w

\* the identifier examined is tracked and not in the active registry
ExaminePollable ==
    /\ ExamineStep
    /\ Head(w.identifiers) \in DOMAIN download_tracking
    /\ Head(w.identifiers) \notin DOMAIN active_downloads

\* C21: within one poll cycle the identifiers still to be examined are lost
\* by no step that handles a job, whatever its outcome (query raised, job
\* absent from the answer, link refused, transfer failed or raised); they
\* are examined one by one, the cycle ends only when none is left, and an
\* identifier that is tracked and not in the active registry when examined
\* is polled.
C21_CycleGoesOn ==
    /\ [][w_pc \notin {"poll", "poll_iter"} /\ w.identifiers # <<>>
             => w'.identifiers = w.identifiers]_vars
    /\ [][ExamineStep => w'.identifiers = Tail(w.identifiers)]_vars
    /\ [][w_pc = "poll_iter" /\ w_pc' = "sleep" => w.identifiers = <<>>]_vars
    /\ [][ExaminePollable => w_pc' = "status" /\ w'.cur = Head(w.identifiers)]_vars

\* C21 witness: a job is polled in a cycle in which another job has failed.
C21_Witness ==
    /\ w_pc = "status"
    /\ w.failed # {}
    /\ w.cur \notin w.failed

\* the step of lines 402-403 that removes the job from the tracker
JobRemoved ==
    /\ w_pc = "df_finally_trk"
    /\ w.cur \in DOMAIN download_tracking
    /\ w.cur \notin DOMAIN download_tracking'

\* C22: a transient network error at a network step of download_file, the
\* HEAD request included, is retried after a wait and leaves the job
\* tracked; the job is removed from the tracker after transient errors only
\* when the retry count is exhausted.
C22_TransientRetried ==
    /\ [][w_pc = "df_transient" /\ w.retry_count + 1 < max_retries
             => /\ w_pc' = "df_loop"
                /\ w'.wait > 0
                /\ download_tracking' = download_tracking]_vars
    /\ [][JobRemoved /\ w.result \in {"head_transient", "exhausted"}
             => w.result = "exhausted"]_vars

\* the GET of this attempt was answered with a status other than 200 and 206
OtherStatus == w.status \notin {0, 200, 206}

\* C23: a GET answered with a status that is neither 200 nor 206 is never
\* taken for a successful transfer: that step opens no file and leads to
\* the handlers, the body is not streamed, and neither the call nor its
\* session is marked complete.
C23_OnlyOkAndPartial ==
    /\ [][w_pc = "df_loop" /\ w'.status \notin {0, 200, 206}
             => disk' = disk /\ w_pc' = "df_except"]_vars
    /\ [](OtherStatus => w_pc # "df_stream" /\ w.result # "complete")
    /\ [](OtherStatus /\ w.sid \in DOMAIN stats => ~stats[w.sid].download_complete)

\* the places of run's loop: the scan, the poll cycle, the sleep, the handler
LoopPlaces ==
    {"scan", "scan_file", "scan_track", "scan_insert", "poll", "poll_iter",
     "status", "request", "rq_end", "sleep", "run_except"}

\* C24 as stated: the process ends with an error only through an error of
\* the configuration validation.
C24_OnlyConfigFatal == web_pc = "exit_1" => web.fatal = "configuration"

\* C24 amended: once started, run never leaves its loop while the process
\* runs, and after an exception of a cycle it begins the next cycle; the
\* process ends with an error only through an exception raised in main
\* itself: by the configuration validation, by the construction of the
\* application or by the start of the web server; no step of the watcher
\* thread ends the process.
C24_LoopSurvivesErrors ==
    /\ [](w_pc # "off" => w_pc \in LoopPlaces)
    /\ [][w_pc = "run_except" /\ w_pc' # w_pc => w_pc' = "scan"]_vars
    /\ [](web_pc = "exit_1" => web.fatal \in {"configuration", "startup"})
    /\ [][Running /\ ~Running' => w_pc' = w_pc /\ w' = w]_vars

\* C24 witness: with the process serving and a job tracked, run has caught
\* the exception of a later cycle and is about to begin the next one.
C24_Witness ==
    /\ web_pc = "idle"
    /\ w_pc = "run_except"
    /\ DOMAIN download_tracking # {}

\* the watcher's track_download call writes its record and returns True
WatcherInsert == w_pc = "scan_insert" /\ w_pc' = "scan_file"

\* the web-server thread's track_download call writes its record and
\* returns True
DashboardInsert == web_pc = "insert" /\ web_pc' = "idle"

\* C28: of two track_download calls with the same identifier running on the
\* watcher thread and on the web-server thread, at most one returns True: a
\* call that writes its record and returns True writes it under a key that
\* is not tracked at that moment, and so replaces no record written by the
\* other call.
C28_OneCallWins ==
    /\ [][WatcherInsert => Str(w.sub[1]) \notin DOMAIN download_tracking]_vars
    /\ [][DashboardInsert => Str(web.identifier) \notin DOMAIN download_tracking]_vars

\* the places of extract_zip
ExtractPlaces ==
    {"ex_analyze", "ex_extract", "ex_stop", "ex_unlink", "ex_except",
     "ex_except_set", "ex_finally", "ex_finally_del"}

\* the file download_file has written is an archive by its name
IsZip == w.filename # <<>> /\ Lower(Suffix(w.filename)) = ".zip"

\* C30: for a transfer whose resolved file name ends in .zip, the session is
\* marked complete while its stop flag is still unset; the stop flag is set
\* next, by the step that enters extract_zip; during the whole of
\* extract_zip the job is tracked and the Transfer Session is complete and
\* stopped; and the tracker entry of a completed archive transfer is removed
\* only after extract_zip has been called and left.
C30_ExtractBeforeUntrack ==
    /\ [][w_pc = "df_stream" /\ w_pc' = "df_zip"
             => /\ ~stats[w.sid].should_stop
                /\ stats'[w.sid].download_complete
                /\ ~stats'[w.sid].should_stop]_vars
    /\ [][w_pc = "df_zip" /\ w_pc' # w_pc
             => /\ w_pc' = "ex_analyze"
                /\ stats'[w.sid].download_complete
                /\ stats'[w.sid].should_stop]_vars
    /\ [](w_pc \in ExtractPlaces
             => /\ w.cur \in DOMAIN download_tracking
                /\ w.sid \in DOMAIN stats
                      => stats[w.sid].download_complete /\ stats[w.sid].should_stop)
    /\ [][JobRemoved /\ IsZip /\ w.result \in {"complete", "extract_raised"}
             => w.ex_key # "" /\ w_pc \notin ExtractPlaces]_vars

\* C30 witness: the entries of the archive are being extracted while the job
\* is tracked and the Transfer Session, complete and stopped, is still there.
C30_Witness ==
    /\ w_pc = "ex_extract"
    /\ w.cur \in DOMAIN download_tracking
    /\ w.sid \in DOMAIN stats
    /\ stats[w.sid].download_complete
    /\ stats[w.sid].should_stop
    /\ w.ex_sid \in DOMAIN stats
    /\ ~stats[w.ex_sid].should_stop

\* a status query is sent for the identifier (watcher.py lines 228-231)
StatusQueried(identifier) ==
    /\ w_pc = "status"
    /\ w.cur = identifier
    /\ w'.poll # "no_info"

\* a download link is requested for the identifier (watcher.py lines 308-319)
LinkRequested(identifier) ==
    /\ w_pc = "request"
    /\ w.cur = identifier
    /\ w'.rq \in {"download", "url_failed"}

\* C31: once download_file has removed a job from the tracker, no status
\* query and no link request is sent for its identifier, in the same cycle
\* or a later one, as long as no track call has inserted it again: the
\* finally block leaves the identifier out of the tracker, and a query or a
\* link request is sent only for an identifier the tracker holds.
C31_NoQueryAfterRemoval ==
    /\ [][w_pc = "df_finally_trk" /\ w_pc' # w_pc
             => w.cur \notin DOMAIN download_tracking']_vars
    /\ [][\A identifier \in {w.cur} :
             StatusQueried(identifier) \/ LinkRequested(identifier)
                => identifier \in DOMAIN download_tracking]_vars

\* the job was just removed while identifiers of the same cycle are still to
\* be examined and another job is tracked
C31_Witness ==
    /\ w_pc = "rq_end"
    /\ w.df_exit # "none"
    /\ w.cur \notin DOMAIN download_tracking
    /\ w.identifiers # <<>>
    /\ DOMAIN download_tracking # {}

\* a transient error is handled (file_processor.py lines 372-389)
TransientStep == w_pc = "df_transient" /\ w_pc' # w_pc

\* the size of the destination file as it is on disk, 0 when there is none
SizeOnDisk(path) == IF path \in DOMAIN disk' THEN Len(disk'[path]) ELSE 0

\* the wait after the n-th transient error and the values taken up after it
WaitedAndResumed(n) ==
    /\ w_pc' = "df_loop"
    /\ w'.retry_count = n
    /\ w'.wait = (IF 5 * n <= 30 THEN 5 * n ELSE 30)
    /\ w'.wait <= 30
    /\ \A m \in 1..n : WaitTime(m) <= w'.wait
    /\ w'.downloaded_size = SizeOnDisk(w.path)
    /\ w.sid \in DOMAIN stats'
    /\ stats'[w.sid].downloaded = SizeOnDisk(w.path)

EtaReported == ret.eta.some /\ ret.eta.num # 0

\* the reported speed is the bytes since the tick before over the time since
\* the tick before
SpeedSincePreviousTick ==
    ret.speed.num * (ret.tick_time - ret.prev_time)
        = (ret.tick_downloaded - ret.prev_downloaded) * ret.speed.den

\* the reported ETA is (total - transferred) over the reported speed
EtaFromReportedSpeed ==
    ret.eta.num * ret.speed.num
        = (ret.st.total_size - ret.tick_downloaded) * ret.speed.den * ret.eta.den

\* C33: in each tick of the reporter of a Transfer Session the reported
\* speed is (bytes since the previous tick) / (seconds since the previous
\* tick), and the ETA of the tick is (total - transferred) / that speed,
\* left out exactly when that speed is zero or the total is unknown.
C33_SpeedAndEta ==
    ret.op = "print_stats" /\ ret.pc = "printed" /\ ret.ticks >= 2
        => /\ SpeedSincePreviousTick
           /\ EtaReported <=> (ret.speed.num # 0 /\ ret.st.total_size # 0)
           /\ EtaReported => EtaFromReportedSpeed

\* the reporter of session s deletes an entry of the registry (line 420)
ReporterDeletes(s) ==
    /\ s \in DOMAIN rep_pc
    /\ rep_pc[s] = "r_del"
    /\ s \in DOMAIN stats
    /\ stats[s].key \in DOMAIN active_downloads
    /\ stats[s].key \notin DOMAIN active_downloads'

\* C34: a reporter thread removes from the registry only the session it was
\* started for; an entry registered under the same key by a later session
\* while the reporter slept is left alone.
C34_ReporterRemovesOwnSession ==
    [][\A s \in DOMAIN rep_pc :
          ReporterDeletes(s) => active_downloads[stats[s].key] = s]_vars

\* the loop of lines 110-116 runs over the results of the scan
ScanDeletes == w_pc = "scan_file" /\ w.files = <<>> /\ w_pc' = "poll"

\* the scan holds a result with the success flag set for the file
TrackedResult(f) ==
    \E i \in DOMAIN w.results : w.results[i][1] /\ w.results[i][2] = f

\* the result the step has appended
LastResult == w'.results[Len(w'.results)]

\* the success flag of a result is set exactly when the submission gave an
\* identifier and track_download inserted the record
ResultTrueIffInserted ==
    Len(w'.results) = Len(w.results) + 1
        => (LastResult[1] <=> /\ w_pc = "scan_insert"
                              /\ Truthy(LastResult[3])
                              /\ Str(LastResult[3]) \in DOMAIN download_tracking')

\* every file of the watch directory is listed by a scan and every listed
\* file is submitted
Resubmitted ==
    /\ w_pc = "scan" /\ w_pc' = "scan_file"
          => {w'.files[i] : i \in DOMAIN w'.files} = watch_dir
    /\ w_pc = "scan_file" /\ w.files # <<>> /\ w' # w
          => \/ w_pc' = "scan_track" /\ w'.files = w.files
             \/ w'.files = Tail(w.files) /\ Len(w'.results) = Len(w.results) + 1

\* C35 as stated: a watch-directory file is deleted in a scan if and only
\* if its submission returned an identifier and track_download returned
\* True; any other file stays and is submitted again on every later scan.
C35_DeletedIffTracked ==
    /\ [][ScanDeletes
             => \A f \in watch_dir : f \notin watch_dir' <=> TrackedResult(f)]_vars
    /\ [][ResultTrueIffInserted]_vars
    /\ [][Resubmitted]_vars

\* C35 amended: a watch-directory file is deleted only by the scan and only
\* if its submission returned an identifier and track_download returned
\* True, and then it is deleted unless os.remove fails; every file left,
\* that one included, is submitted again on every later scan.
C35_DeletedOnlyIfTracked ==
    /\ [][\A f \in watch_dir \ watch_dir' : ScanDeletes /\ TrackedResult(f)]_vars
    /\ [][ScanDeletes
             => \A f \in watch_dir :
                   TrackedResult(f) /\ ~f.locked => f \notin watch_dir']_vars
    /\ [][ResultTrueIffInserted]_vars
    /\ [][Resubmitted]_vars

\* the tracked magnet file has been deleted and the NZB file, whose
\* submission gave no identifier, is still there
C35_Witness ==
    /\ w_pc = "poll"
    /\ \E f \in watch_dir : f.ext = ".nzb"
    /\ \A f \in watch_dir : f.ext # ".magnet"
    /\ \E k \in DOMAIN download_tracking :
          download_tracking[k].original_file = "s:watch/file"

\* the answer holds an entry that matches the job and reports
\* download_present
MatchingPresent(entries, info, identifier) ==
    \E i \in DOMAIN entries : /\ ItemMatches(entries[i], info, identifier)
                              /\ entries[i].download_present

\* a "data" list makes the job ready only with a matching entry that
\* reports download_present
ListReadyOnlyMatched(info, identifier) ==
    \A data \in StatusLists :
        PollOutcome(FindDownloadData(data, info, identifier)) = "ready"
            => MatchingPresent(data, info, identifier)

\* a poll leaves the tracker as it is, and goes on to the link request
\* exactly when it found the job ready
PollStep ==
    w_pc = "status" /\ w_pc' # w_pc
        => /\ download_tracking' = download_tracking
           /\ w_pc' = "request" <=> w'.poll = "ready"
           /\ w_pc' # "request" => w_pc' = "poll_iter"

\* every tracked identifier is listed when the polls of a cycle begin
PolledNextCycle ==
    w_pc = "poll" /\ w_pc' = "poll_iter"
        => {w'.identifiers[i] : i \in DOMAIN w'.identifiers}
               = DOMAIN download_tracking

\* C36 as stated: a poll leads to the link request only when the answer
\* holds an entry that matches the job (by the stored service ID, by the
\* stored hash, or by the identifier as hash when no service ID is stored)
\* and reports download_present; otherwise the job stays tracked, unchanged,
\* and is polled again in the next cycle.
C36_RequestOnlyWhenMatched ==
    /\ [](\A k \in DOMAIN download_tracking :
            /\ ListReadyOnlyMatched(download_tracking[k], k)
            /\ \A item \in StatusItems :
                  PollOutcome(<<item>>) = "ready"
                      => MatchingPresent(<<item>>, download_tracking[k], k))
    /\ [][PollStep]_vars
    /\ [][PolledNextCycle]_vars

\* C36 amended: a poll leads to the link request only when the "data" of
\* the answer is a list holding an entry that matches the job and reports
\* download_present, or is a single object reporting download_present, which
\* is taken without being matched; otherwise the job stays tracked,
\* unchanged, and is polled again in the next cycle.
C36_RequestOnlyWhenPresent ==
    /\ [](\A k \in DOMAIN download_tracking :
            /\ ListReadyOnlyMatched(download_tracking[k], k)
            /\ \A item \in StatusItems :
                  PollOutcome(<<item>>) = "ready" <=> item.download_present)
    /\ [][PollStep]_vars
    /\ [][PolledNextCycle]_vars

\* the poll of a tracked job has found it ready and the link is about to be
\* requested
C36_Witness ==
    /\ w_pc = "request"
    /\ w.poll = "ready"
    /\ w.cur \in DOMAIN download_tracking

\* the API call has come back to its caller
ApiDone == ret.pc \in {"returned", "raised"}

\* the attempts are bounded, 5 seconds apart, and the call ends with the
\* first answer or with the exception of the last attempt
ApiBounded ==
    /\ ret.attempt_number <= ret.arg + 1
    /\ \A i \in DOMAIN ret.waits : ret.waits[i] = 5
    /\ Len(ret.waits) <= ret.arg
    /\ ret.pc = "returned"
          => ret.val \in ApiAnswers /\ Len(ret.waits) = ret.attempt_number - 1
    /\ ret.pc = "raised"
          => /\ ret.attempt_number = ret.arg + 1
             /\ ret.exc_attempt = ret.attempt_number
             /\ ret.exc \in ApiErrors

\* C37: every call of _get or _post makes at most MAX_RETRIES + 1 attempts
\* with 5 seconds between two attempts, returns the first successful JSON
\* answer, raises the exception of the last attempt when that one failed
\* too, and always terminates.
C37_ApiCallTerminates ==
    /\ [](ret.op \in {"_get", "_post"} => ApiBounded)
    /\ <>ApiDone

\* the HEAD probe has answered and download_file has settled on a name
NameResolved == w_pc = "df_head" /\ w_pc' = "df_register"

\* the display names, headers and link extensions a name is resolved from
NameInputs ==
    [name : {<<"movie">>, <<"movie", ".mkv">>}, cd : HeadCDs,
     ext : UrlExts \cup {".matroska"}, ctype : ContentTypes]

\* the name by the three rules of the statement
NameAsStated(name, cd, ext) ==
    IF cd # NoCD THEN cd
    ELSE IF ext # ""
         THEN IF Suffix(name) = ext THEN name ELSE Append(name, ext)
    ELSE name

\* the name by the rules of lines 285-311
NameAmended(name, cd, ext, ctype) ==
    IF cd # NoCD THEN cd
    ELSE IF ext # "" /\ Len(ext) <= 5
         THEN IF Suffix(name) = ext THEN name ELSE Append(name, ext)
    ELSE IF ctype = "application/zip" THEN Append(name, ".zip")
    ELSE name

\* C38 as stated: the file is written to <parent of the requested path>/
\* <resolved name>, the resolved name being the name of the
\* Content-Disposition header when there is one, otherwise the display name
\* with the extension of the URL path appended unless it ends with it
\* already, otherwise the display name unchanged.
C38_FilenameResolution ==
    /\ [][NameResolved
             => /\ w'.path = w.dir \o "/" \o JoinName(w'.filename)
                /\ w'.filename = NameAsStated(w.name, server.cd, w.url_ext)]_vars
    /\ [](\A i \in NameInputs :
            ResolveFilename(i.name, i.cd, i.ext, i.ctype)
                = NameAsStated(i.name, i.cd, i.ext))

\* C38 amended: the file is written to <parent of the requested path>/
\* <resolved name>, the resolved name being the name of the
\* Content-Disposition header when there is one; otherwise the display name
\* with the extension of the URL path appended (unless it ends with it
\* already) when that extension is at most 5 characters long; otherwise the
\* display name with ".zip" appended when the Content-Type contains "zip";
\* otherwise the display name unchanged.
C38_FilenameResolutionWithType ==
    /\ [][NameResolved
             => /\ w'.path = w.dir \o "/" \o JoinName(w'.filename)
                /\ w'.filename
                      = NameAmended(w.name, server.cd, w.url_ext, server.ctype)]_vars
    /\ [](\A i \in NameInputs :
            ResolveFilename(i.name, i.cd, i.ext, i.ctype)
                = NameAmended(i.name, i.cd, i.ext, i.ctype))

\* without header and without link extension, the Content-Type has given
\* the name its .zip
C38_Witness ==
    /\ w_pc = "df_register"
    /\ server.cd = NoCD
    /\ w.url_ext = ""
    /\ w.filename = <<"movie", ".zip">>
    /\ w.path = "s:radarr/movie.zip"

\* the Extraction Sessions there are
ExtractSessions == {s \in DOMAIN stats : stats[s].kind = "extract"}

\* an Extraction Session is registered only by the analysis of extract_zip,
\* once in a call, under the key of the archive, and after the Transfer
\* Session has been stopped
RegisteredOnce ==
    \A e \in DOMAIN stats' \ DOMAIN stats :
        stats'[e].kind = "extract"
            => /\ w_pc = "ex_analyze"
               /\ w.ex_sid = 0
               /\ w'.ex_sid = e
               /\ active_downloads'[w.ex_key] = e
               /\ Stopped(w.sid)

\* no Transfer Session and Extraction Session are both without stop flag
NeverBothRunning ==
    \A s \in DownloadSessions, e \in ExtractSessions :
        stats[s].should_stop \/ stats[e].should_stop

\* C39 as stated: every job whose completed artifact is an archive gets
\* exactly one Extraction Session registered after its Transfer Session, and
\* never has a Transfer Session and an Extraction Session both without stop
\* flag.
C39_ExactlyOneExtraction ==
    /\ [](ExtractLeft => w.ex_sid # 0)
    /\ [][RegisteredOnce]_vars
    /\ []NeverBothRunning

\* C39 amended: a job whose completed artifact is an archive gets at most
\* one Extraction Session, registered after its Transfer Session has been
\* stopped: exactly one when the analysis of the archive goes through, none
\* when opening or analysing the archive raises; and it never has a Transfer
\* Session and an Extraction Session both without stop flag.
C39_AtMostOneExtraction ==
    /\ [](ExtractLeft => (w.ex_sid # 0 \/ w.ex_failed))
    /\ [](w_pc \in {"ex_extract", "ex_stop", "ex_unlink"} => w.ex_sid # 0)
    /\ [][RegisteredOnce]_vars
    /\ []NeverBothRunning

\* the Extraction Session of the job is registered and running beside its
\* stopped Transfer Session
C39_Witness ==
    /\ w_pc = "ex_stop"
    /\ w.ex_key \in DOMAIN active_downloads
    /\ active_downloads[w.ex_key] = w.ex_sid
    /\ ~stats[w.ex_sid].should_stop
    /\ Stopped(w.sid)

-----------------------------------------------------------------------------
(* The tracker driven call by call: every method of DownloadTracker called *)
(* with every argument of a small set, one call per step.                  *)

\* failure counts above this are not incremented further by the driver
MaxFailures == 1

\* max_age_hours values passed to cleanup_old_downloads
MaxAge == 1

\* the state of everything but the tracker while only the tracker is driven
RestIdle ==
    /\ active_downloads = EmptyDict
    /\ stats = EmptyDict
    /\ rep_pc = EmptyDict
    /\ disk = EmptyDict
    /\ source = <<>>
    /\ server = None
    /\ file0 = None
    /\ w_pc = "off"
    /\ w = EmptyDict
    /\ web_pc = "off"
    /\ web = EmptyDict
    /\ watch_dir = {}

rest_vars == <<active_downloads, stats, rep_pc, disk, source, server, file0, w_pc, w,
               web_pc, web, watch_dir>>

InitTracker ==
    /\ download_tracking = EmptyDict
    /\ now = 0
    /\ ret = NoCall
    /\ RestIdle

T_track_download ==
    \E identifier \in RawIds, download_type \in Types :
        LET info == TrackingInfo(download_type, <<"movie">>, None, identifier,
                                 "s:abc", "s:radarr", FALSE, now)
            r    == TrackDownload(download_tracking, identifier, info)
        IN  /\ download_tracking' = r.trk
            /\ ret' = [op |-> "track_download", arg |-> identifier, val |-> r.val]
            /\ UNCHANGED <<now, rest_vars>>

T_increment_failure_count ==
    \E identifier \in RawIds :
        LET r == IncrementFailureCount(download_tracking, identifier)
        IN  /\ Str(identifier) \in DOMAIN download_tracking
                => download_tracking[Str(identifier)].failure_count < MaxFailures
            /\ download_tracking' = r.trk
            /\ ret' = [op |-> "increment_failure_count", arg |-> identifier, val |-> r.val]
            /\ UNCHANGED <<now, rest_vars>>

T_reset_failure_count ==
    \E identifier \in RawIds :
        /\ download_tracking' = ResetFailureCount(download_tracking, identifier)
        /\ ret' = [op |-> "reset_failure_count", arg |-> identifier, val |-> None]
        /\ UNCHANGED <<now, rest_vars>>

T_update_filename ==
    \E identifier \in RawIds, filename \in Names :
        LET is_multi_file == (Len(filename) > 1)
        IN
        /\ download_tracking' =
               UpdateFilename(download_tracking, identifier, filename, is_multi_file)
        /\ ret' = [op |-> "update_filename", arg |-> identifier, val |-> None]
        /\ UNCHANGED <<now, rest_vars>>

T_remove_tracked_download ==
    \E download_id \in RawIds :
        /\ download_tracking' = RemoveTrackedDownload(download_tracking, download_id)
        /\ ret' = [op |-> "remove_tracked_download", arg |-> download_id, val |-> None]
        /\ UNCHANGED <<now, rest_vars>>

T_get_download_info ==
    \E identifier \in RawIds :
        /\ ret' = [op |-> "get_download_info", arg |-> identifier,
                   val |-> GetDownloadInfo(download_tracking, identifier)]
        /\ UNCHANGED <<download_tracking, now, rest_vars>>

T_cleanup_old_downloads ==
    \E max_age_hours \in 0..MaxAge :
        LET r == CleanupOldDownloads(download_tracking, now, max_age_hours)
        IN  /\ download_tracking' = r.trk
            /\ ret' = [op |-> "cleanup_old_downloads", arg |-> max_age_hours,
                       val |-> r.val]
            /\ UNCHANGED <<now, rest_vars>>

\* time passes between two calls
Tick ==
    /\ now < MaxClock
    /\ now' = now + 1
    /\ ret' = NoCall
    /\ UNCHANGED <<download_tracking, rest_vars>>

NextTracker ==
    \/ T_track_download
    \/ T_increment_failure_count
    \/ T_reset_failure_count
    \/ T_update_filename
    \/ T_remove_tracked_download
    \/ T_get_download_info
    \/ T_cleanup_old_downloads
    \/ Tick

SpecTracker == InitTracker /\ [][NextTracker]_vars

-----------------------------------------------------------------------------
(* Submissions one by one: process_torrent_file and process_nzb_file called *)
(* on the answers the service can give, one call per step.                  *)

\* the "data" objects of the answers to a submission of either type: a
\* service ID is a positive number, a hash a non-empty string, None stands
\* for a key that is absent
SubmitAnswers ==
    [torrent_id : {None, "i:42"}, usenetdownload_id : {None, "i:42"},
     id : {None, "i:7"}, hash : {None, "s:abc"}]

\* lines 159-204 and 364-401: one file is submitted; the answer is resolved
\* to an identifier and tracked, or the submission is reported as failed
T_process_file ==
    \E download_type \in Types :
        \/ \E data \in SubmitAnswers :
              LET ids == ExtractIdentifierFromResponse(data, download_type)
                  info == TrackingInfo(download_type, <<"movie">>, "s:watch/file",
                                       ids[2], ids[3], RADARR_DOWNLOAD_DIR, FALSE, now)
                  r == TrackDownload(download_tracking, ids[1], info)
              IN  IF Truthy(ids[1])
                  THEN /\ download_tracking' = r.trk
                       /\ ret' = [op |-> "process_file", kind |-> download_type,
                                  arg |-> data, val |-> r.val]
                  ELSE /\ download_tracking' = download_tracking
                       /\ ret' = [op |-> "process_file", kind |-> download_type,
                                  arg |-> data, val |-> FALSE]
        \/ \* the API call raises (lines 202-204, 399-401)
           /\ download_tracking' = download_tracking
           /\ ret' = [op |-> "process_file_error", kind |-> download_type,
                      arg |-> None, val |-> FALSE]
    /\ UNCHANGED <<now, rest_vars>>

\* the items and directories the dashboard passes to add_item_to_track:
\* 'id' may be null, 'hash' may be missing
AddItems == [id : {None, "i:42"}, hash : {None, "s:abc"}, dir : {None, "s:sonarr"}]

\* lines 469-492: add_item_to_track, the mapping after the call and the
\* value returned; str(None) is the non-empty string "None"
AddItemToTrack(trk, item_id, item_type, item_name, item_hash, download_dir, clock) ==
    LET identifier == IF Truthy(item_id) THEN Str(item_id) ELSE Str(item_hash)
        dir == IF Truthy(download_dir) THEN download_dir ELSE RADARR_DOWNLOAD_DIR
    IN  IF identifier = "s:"
        THEN [trk |-> trk, val |-> FALSE]
        ELSE TrackDownload(trk, identifier,
                           TrackingInfo(item_type, item_name, None, item_id,
                                        item_hash, dir, FALSE, clock))

T_add_item_to_track ==
    \E item \in AddItems, item_type \in Types :
        LET r == AddItemToTrack(download_tracking, item.id, item_type, <<"movie">>,
                                item.hash, item.dir, now)
        IN  /\ download_tracking' = r.trk
            /\ ret' = [op |-> "add_item_to_track", kind |-> item_type,
                       arg |-> item, val |-> r.val]
            /\ UNCHANGED <<now, rest_vars>>

NextResolve == T_process_file \/ T_add_item_to_track \/ T_remove_tracked_download

SpecResolve == InitTracker /\ [][NextResolve]_vars

-----------------------------------------------------------------------------
(* Claims about the tracker *)

\* C1: a track_download call with an identifier that is already tracked
\* returns False and leaves the whole mapping (the existing record and every
\* other record) unchanged.
C1_TrackTwiceNoMutation ==
    [][(ret'.op = "track_download" /\ Str(ret'.arg) \in DOMAIN download_tracking)
          => (ret'.val = FALSE /\ download_tracking' = download_tracking)]_vars

\* C1 witness: a second track_download was refused while the stored record
\* differs from the one the refused call carried (older timestamp, renamed,
\* failures counted) and another record is tracked beside it.
C1_Witness ==
    /\ ret.op = "track_download"
    /\ ret.val = FALSE
    /\ Str(ret.arg) \in DOMAIN download_tracking
    /\ download_tracking[Str(ret.arg)].submitted_at < now
    /\ download_tracking[Str(ret.arg)].failure_count > 0
    /\ download_tracking[Str(ret.arg)].name # <<"movie">>
    /\ Cardinality(DOMAIN download_tracking) > 1


C15_RemoveIdempotent ==
    [][ret'.op = "remove_tracked_download" =>
          /\ Str(ret'.arg) \notin DOMAIN download_tracking
                => download_tracking' = download_tracking
          /\ RemoveTrackedDownload(download_tracking', ret'.arg) = download_tracking'
          /\ Str(ret'.arg) \notin DOMAIN download_tracking']_vars

\* a call of one of the four methods with an identifier that is not tracked
UnknownCall ==
    /\ ret'.op \in {"increment_failure_count", "reset_failure_count",
                    "update_filename", "get_download_info"}
    /\ Str(ret'.arg) \notin DOMAIN download_tracking

\* C25: increment_failure_count, reset_failure_count, update_filename and
\* get_download_info called with an identifier that is not tracked leave the
\* tracker mapping unchanged; increment_failure_count and get_download_info
\* return None, the other two return nothing.
C25_UnknownIsNoOp ==
    [][UnknownCall => download_tracking' = download_tracking /\ ret'.val = None]_vars

\* C25 witness: increment_failure_count has returned None for an identifier
\* that is not tracked while another job is tracked.
C25_Witness ==
    /\ ret.op = "increment_failure_count"
    /\ Str(ret.arg) \notin DOMAIN download_tracking
    /\ ret.val = None
    /\ DOMAIN download_tracking # {}

\* a submission has been answered
Answered == ret'.op = "process_file"

\* the service ID of an answer: torrent_id for a torrent; usenetdownload_id,
\* else id, for usenet; None without one
ServiceId(data, download_type) ==
    IF download_type = "torrent" THEN data.torrent_id
    ELSE IF data.usenetdownload_id # None THEN data.usenetdownload_id
    ELSE data.id

\* the submission counts as done under key k: k is refused as already
\* tracked and nothing changes, or k is inserted with the ID and the hash of
\* the answer
TrackedUnder(k, download_id, download_hash) ==
    IF k \in DOMAIN download_tracking
    THEN ~ret'.val /\ download_tracking' = download_tracking
    ELSE /\ ret'.val
         /\ DOMAIN download_tracking' = DOMAIN download_tracking \cup {k}
         /\ \A j \in DOMAIN download_tracking : download_tracking'[j] = download_tracking[j]
         /\ download_tracking'[k].id = download_id
         /\ download_tracking'[k].hash = download_hash

\* C26: an answer with a service ID (torrent_id for torrents;
\* usenetdownload_id, else id, for usenet) is tracked under that ID as a
\* string, with the hash of the answer stored in the record; an answer with
\* only a hash is tracked under the hash; an answer with neither tracks
\* nothing and the submission is reported as failed.
C26_IdentifierResolution ==
    [][Answered =>
          LET data == ret'.arg
              sid == ServiceId(data, ret'.kind)
          IN  IF sid # None THEN TrackedUnder(Str(sid), sid, data.hash)
              ELSE IF data.hash # None THEN TrackedUnder(data.hash, None, data.hash)
              ELSE ~ret'.val /\ download_tracking' = download_tracking]_vars

\* C26 witness: a usenet submission answered with id 7 and the hash "abc",
\* without usenetdownload_id, has been tracked under "7" with the hash
\* stored, while "abc" is the key of another job.
C26_Witness ==
    /\ ret.op = "process_file"
    /\ ret.kind = "usenet"
    /\ ret.val
    /\ ret.arg.usenetdownload_id = None /\ ret.arg.id = "i:7" /\ ret.arg.hash = "s:abc"
    /\ {"s:7", "s:abc"} \subseteq DOMAIN download_tracking
    /\ download_tracking["s:7"].hash = "s:abc"
    /\ download_tracking["s:abc"].id = None

\* C27: add_item_to_track returns False and inserts nothing for an item
\* with neither a service ID nor a hash; otherwise the item is tracked under
\* its service ID if it has one, else under its hash, with the configured
\* default as destination directory when none is passed.
C27_AddItemResolution ==
    [][ret'.op = "add_item_to_track" =>
          LET item == ret'.arg
              k == IF item.id # None THEN Str(item.id) ELSE item.hash
          IN  IF item.id = None /\ item.hash = None
              THEN ~ret'.val /\ download_tracking' = download_tracking
              ELSE /\ TrackedUnder(k, item.id, item.hash)
                   /\ ret'.val => download_tracking'[k].download_dir =
                                      (IF item.dir # None THEN item.dir
                                       ELSE RADARR_DOWNLOAD_DIR)]_vars

\* cleanup_old_downloads deletes an entry
CleanupRemoves ==
    /\ ret.pc = "del"
    /\ ret' # ret
    /\ download_tracking' # download_tracking

\* C29: cleanup_old_downloads running beside threads that insert into and
\* delete from the tracker mapping ends without an exception, and every
\* entry it deletes is older than max_age_hours when it is deleted.
C29_CleanupConcurrent ==
    /\ [](ret.pc \notin {"RuntimeError", "KeyError"})
    /\ [][CleanupRemoves =>
             Head(ret.to_remove) \in StaleKeys(download_tracking, ret.clock, ret.arg)]_vars

=============================================================================
